---- MODULE Spec2Model ----
(***************************************************************************)
(* A model of the ray-tracing core of MinecraftSkin_Raytracer:             *)
(*   - TileRenderer::generateTiles / renderTile / render                   *)
(*     (src/src/raytracer/tile_renderer.cpp, second revision, l.149-341),  *)
(*   - RayTracer::traceRay / backgroundColor (src/src/raytracer/           *)
(*     raytracer.cpp),                                                     *)
(*   - Mesh copy / move operations (scene/mesh.h, src/unnamed/part_007)    *)
(*     and MeshBuilder::buildBox (src/src/scene/scene.h l.101-155).        *)
(* Each part has its own specification over its own group of variables;    *)
(* the variables of the other parts stay at their initial value.           *)
(***************************************************************************)
EXTENDS Integers, Sequences, FiniteSets, TLC

\* ------------------------------------------------------------------ bounds
MaxDim == 3         \* image width and height range over 1..MaxDim
MaxTileSize == 2    \* small tile sizes range over 0..MaxTileSize
MaxTiles == 2       \* renders are explored for at most this many tiles
MaxThreads == 2     \* thread counts (configured, hardware) range over 0..MaxThreads
MaxThrows == 1      \* renderTile throws for at most this many tiles of a render

\* ----------------------------------------------------- C++ int arithmetic
IntMax == 2147483647
IntMin == -IntMax - 1

\* a + b for ints a, b >= 0 whose sum may pass INT_MAX: the two's complement
\* result, computed without leaving the 32-bit range.
WrapAdd(a, b) ==
    IF a <= IntMax - b THEN a + b
    ELSE (a - IntMax - 1) + (b - IntMax - 1)

AddOverflows(a, b) == a > IntMax - b

\* C++ integer division (truncation toward zero) for a divisor b > 0.
CDiv(a, b) ==
    IF a >= 0 THEN a \div b
    ELSE (a \div b) + (IF a % b # 0 THEN 1 ELSE 0)

Min(a, b) == IF a < b THEN a ELSE b

\* ------------------------------------------------------------ generateTiles
\* cols = (imageWidth + tileSize - 1) / tileSize, in int arithmetic.
TileCount(extent, tileSize) == CDiv(WrapAdd(extent, tileSize - 1), tileSize)

\* Signed overflow in (extent + tileSize - 1) is undefined behaviour.
TileCountOverflows(extent, tileSize) == AddOverflows(extent, tileSize - 1)

MakeTile(tx, ty, imageWidth, imageHeight, tileSize) ==
    [x |-> tx * tileSize,
     y |-> ty * tileSize,
     width |-> Min(tileSize, imageWidth - tx * tileSize),
     height |-> Min(tileSize, imageHeight - ty * tileSize)]

\* The result of generateTiles on a build where signed overflow wraps:
\* thrown is TRUE when tiles.reserve(cols * rows) is asked for a negative
\* (that is, huge unsigned) count and throws std::length_error.
GenerateTiles(imageWidth, imageHeight, tileSize) ==
    IF imageWidth <= 0 \/ imageHeight <= 0 \/ tileSize <= 0
    THEN [thrown |-> FALSE, tiles |-> << >>]
    ELSE LET cols == TileCount(imageWidth, tileSize)
             rows == TileCount(imageHeight, tileSize)
         IN  IF cols * rows < 0
             THEN [thrown |-> TRUE, tiles |-> << >>]
             ELSE IF cols <= 0 \/ rows <= 0
             THEN [thrown |-> FALSE, tiles |-> << >>]
             ELSE [thrown |-> FALSE,
                   tiles |-> [i \in 1..(cols * rows) |->
                       MakeTile((i - 1) % cols, (i - 1) \div cols,
                                imageWidth, imageHeight, tileSize)]]

\* Every outcome a build can produce: the wrapping one, and, when the
\* arithmetic overflows (undefined behaviour), also an abnormal exit.
GenerateTilesOutcomes(imageWidth, imageHeight, tileSize) ==
    {GenerateTiles(imageWidth, imageHeight, tileSize)}
    \cup (IF imageWidth > 0 /\ imageHeight > 0 /\ tileSize > 0
             /\ (TileCountOverflows(imageWidth, tileSize)
                 \/ TileCountOverflows(imageHeight, tileSize))
          THEN {[thrown |-> TRUE, tiles |-> << >>]}
          ELSE {})

\* ------------------------------------------------------------- renderTile
\* std::mt19937 seeded per tile and std::uniform_real_distribution, as a
\* deterministic generator: a state, a step, and the value drawn (a jitter
\* offset in quarters of a pixel).
RngSeed(seed) == seed % 16
RngNext(st) == (5 * st + 3) % 16
RngOut(st) == st % 4

\* The seed of the generator renderTile builds for a tile; worker is the thread
\* that runs renderTile.
TileSeedByWorker(tile, cfg, worker) == worker
TileSeed(tile, cfg, worker) == tile.y * cfg.width + tile.x

\* What traceRay (with the background override) returns for the sample at
\* pixel (px, py) with jitter (jx, jy) and lens sample: a fixed function of
\* the ray for a fixed scene.
SampleColor(px, py, jx, jy, lens) ==
    (3 * (4 * px + jx) + 5 * (4 * py + jy) + 7 * lens) % 16

\* The sample loop of one pixel: spp samples, each drawing jx, jy (unless
\* spp = 1) and, with depth of field, the two lens numbers of generateDOFRay.
RECURSIVE SampleLoop(_, _, _, _, _, _)
SampleLoop(s, cfg, st, acc, px, py) ==
    LET spp == IF cfg.samplesPerPixel < 1 THEN 1 ELSE cfg.samplesPerPixel IN
    IF s >= spp THEN [acc |-> acc \div spp, st |-> st]
    ELSE LET st1 == IF spp = 1 THEN st ELSE RngNext(st)
             jx == IF spp = 1 THEN 2 ELSE RngOut(st1)
             st2 == IF spp = 1 THEN st1 ELSE RngNext(st1)
             jy == IF spp = 1 THEN 2 ELSE RngOut(st2)
             st3 == IF cfg.dofEnabled THEN RngNext(st2) ELSE st2
             st4 == IF cfg.dofEnabled THEN RngNext(st3) ELSE st3
             lens == IF cfg.dofEnabled THEN 1 + RngOut(st3) + 4 * RngOut(st4) ELSE 0
         IN  SampleLoop(s + 1, cfg, st4, acc + SampleColor(px, py, jx, jy, lens), px, py)

\* The pixel loops of renderTile, row by row, stopped after `count` pixels
\* (count = tile.width * tile.height when renderTile returns normally).
RECURSIVE PixelLoop(_, _, _, _, _, _)
PixelLoop(k, count, st, tile, cfg, pixels) ==
    IF k >= count THEN pixels
    ELSE LET px == tile.x + (k % tile.width)
             py == tile.y + (k \div tile.width)
             r == SampleLoop(0, cfg, st, 0, px, py)
         IN  PixelLoop(k + 1, count, r.st, tile, cfg,
                       [pixels EXCEPT ![py * cfg.width + px] = r.acc])

RenderTilePixels(tile, cfg, worker, count, pixels) ==
    PixelLoop(0, count, RngSeed(TileSeed(tile, cfg, worker)), tile, cfg, pixels)

\* The indices of the first `count` pixels renderTile writes.
TileWrites(tile, cfg, count) ==
    {(tile.y + (k \div tile.width)) * cfg.width + tile.x + (k % tile.width) :
        k \in 0..(count - 1)}

\* Image(w, h): w * h default-constructed colours (Color() is 0,0,0,1: -1 here).
DefaultColor == -1
NewPixels(w, h) == [i \in 0..(w * h - 1) |-> DefaultColor]

\* ------------------------------------------------------------------ render
\* threadCount as render computes it from the configuration and
\* std::thread::hardware_concurrency().
EffectiveThreadCountNoFloor(configured, hw) == IF configured <= 0 THEN hw ELSE configured

EffectiveThreadCount(configured, hw) ==
    IF configured <= 0
    THEN (IF hw <= 0 THEN 1 ELSE hw)
    ELSE configured

\* nextTile.fetch_add(1): the value the counter holds afterwards.
FetchAddLoadOnly(n) == n
FetchAdd(n) == n + 1

\* The handlers of the worker's try block: catch (const std::exception&) and
\* catch (...).
CatchesStdOnly(kind) == kind = "std"
Catches(kind) == kind \in {"std", "other"}

CatchMessage(kind) == IF kind = "std" THEN "what" ELSE "Unknown error"

\* After the callback (or without one) the worker goes round its loop again.
WorkerStopsAfterTile(w) == "exit"
WorkerLoops(w) == "claim"

\* Where a catch clause leaves the worker: after the try block, at the
\* progress accounting.
AfterCatchSkipProgress(w) == "claim"
AfterCatch(w) == "count"

\* ---------------------------------------------------------------- traceRay
MaxBounces == 2     \* maxBounces ranges over -1..MaxBounces

\* A Color is [c, a] in hundredths: c stands for each of r, g and b, which
\* the code treats alike.
ClampUnit(x) == IF x < 0 THEN 0 ELSE IF x > 100 THEN 100 ELSE x

ColorClamp(col) == [c |-> ClampUnit(col.c), a |-> ClampUnit(col.a)]

\* RayTracer::backgroundColor: u, v in hundredths; t = clamp(2 * dist)^2 in
\* ten-thousandths.
BackgroundColor(scene, u, v, cfg) ==
    IF cfg.present /\ cfg.gradientBg
    THEN LET cx == u - 50
             cy == v - 50
             t == Min(4 * (cx * cx + cy * cy), 10000)
         IN  [c |-> (cfg.bgCenter.c * (10000 - t) + cfg.bgEdge.c * t) \div 10000,
              a |-> 100]
    ELSE scene.backgroundColor

\* if (depth > maxBounces): the base case of traceRay.
BaseCaseOneLater(depth, maxBounces) == depth > maxBounces + 1
BaseCaseReached(depth, maxBounces) == depth > maxBounces

\* if (depth < maxBounces): the guard of the reflection ray.
ReflectAtLimit(depth, maxBounces) == depth <= maxBounces
ReflectCondition(depth, maxBounces) == depth < maxBounces

\* What traceRay returns without descending: at the base case, and on a miss.
BaseCaseColor(scene, cfg) ==
    IF cfg.present THEN BackgroundColor(scene, 50, 50, cfg)
    ELSE scene.backgroundColor

MissColor(scene, depth, cfg) ==
    IF depth = 0 /\ cfg.present THEN BackgroundColor(scene, 50, 50, cfg)
    ELSE scene.backgroundColor

\* shadedColor.r *= aoFactor (and g, b), aoFactor in hundredths.
ApplyAO(col, aoFactor) == [c |-> (col.c * aoFactor) \div 100, a |-> col.a]

\* shadedColor * (1 - SKIN_REFLECTIVITY) + reflectedColor * SKIN_REFLECTIVITY
SKIN_REFLECTIVITY == 10
Blend(shaded, reflected) ==
    [c |-> (shaded.c * (100 - SKIN_REFLECTIVITY) + reflected.c * SKIN_REFLECTIVITY) \div 100,
     a |-> (shaded.a * (100 - SKIN_REFLECTIVITY) + reflected.a * SKIN_REFLECTIVITY) \div 100]

\* shadedColor.a = originalAlpha; return shadedColor.clamp();
FinishColor(col, originalAlpha) == ColorClamp([c |-> col.c, a |-> originalAlpha])

\* -------------------------------------------------------------------- Mesh
MaxMeshes == 3      \* storage for this many Mesh objects
MaxParts == 2       \* body part textures buildBox is called with

Faces == 0..5

\* A const TextureRegion* is the mesh whose ownedTextures it points into and
\* the index there; nullptr is mesh 0.
NullTexture == [mesh |-> 0, face |-> 0]

\* A TextureRegion is the body part and face it was cut from, and whether its
\* pixels vector still holds them (a moved-from vector is empty).
EmptyRegion == [part |-> 0, face |-> 0, hasPixels |-> FALSE]

MovedFromRegion(region) == [region EXCEPT !.hasPixels = FALSE]

\* Mesh() = default
DefaultMesh ==
    [triangles |-> << >>, ownedTextures |-> [i \in Faces |-> EmptyRegion]]

\* buildBox: ownedTextures = front, back, left, right, top, bottom of tex;
\* addFace pushes two triangles per face, each with &mesh.ownedTextures[face].
BuildBoxMesh(self, tex) ==
    [triangles |-> [k \in 1..12 |->
                       [texture |-> [mesh |-> self, face |-> (k - 1) \div 2]]],
     ownedTextures |-> [i \in Faces |->
                       [part |-> tex, face |-> i, hasPixels |-> TRUE]]]

\* fixupTexturePointers: a triangle whose texture is &other.ownedTextures[i]
\* gets &ownedTextures[i]; any other pointer, and nullptr, stays.
FixupKeepsPointers(triangles, other, self) == triangles
FixupTexturePointers(triangles, other, self) ==
    [k \in DOMAIN triangles |->
        IF triangles[k].texture # NullTexture /\ triangles[k].texture.mesh = other
        THEN [triangles[k] EXCEPT !.texture.mesh = self]
        ELSE triangles[k]]

FixupTexturePointersAfterMove(triangles, other, self) ==
    [k \in DOMAIN triangles |->
        IF triangles[k].texture # NullTexture /\ triangles[k].texture.mesh = other
        THEN [triangles[k] EXCEPT !.texture.mesh = self]
        ELSE triangles[k]]

\* ----------------------------------------------- intersectMesh, intersectScene
\* Vectors are functions on the axes 0 = X, 1 = Y, 2 = Z with integer
\* components. A ray direction has components in {-1, 0, 1}, so that
\* invD = 1 / dir[i] = dir[i] and every ray parameter t is an integer (t counts
\* steps of the direction vector).
Axes == 0..2

Vec(x, y, z) == (0 :> x) @@ (1 :> y) @@ (2 :> z)

\* std::numeric_limits<float>::max(): larger than every parameter met.
FloatMax == 1000

\* HitResult result; result.hit = false; (point is ray.at(t), not kept).
NoHit ==
    [hit |-> FALSE, t |-> 0, normal |-> Vec(0, 0, 0),
     textureColor |-> [tint |-> 0, a |-> 1], isOuterLayer |-> FALSE,
     exitSamples |-> 0]

\* determineFace: (hitAxis, hitNegSide) to the face index 0..5 and the normal.
DetermineFace(hitAxis, hitNegSide) ==
    IF hitAxis = 2
    THEN (IF hitNegSide THEN [normal |-> Vec(0, 0, -1), faceIndex |-> 0]
                        ELSE [normal |-> Vec(0, 0, 1), faceIndex |-> 1])
    ELSE IF hitAxis = 0
    THEN (IF ~hitNegSide THEN [normal |-> Vec(1, 0, 0), faceIndex |-> 2]
                         ELSE [normal |-> Vec(-1, 0, 0), faceIndex |-> 3])
    ELSE (IF ~hitNegSide THEN [normal |-> Vec(0, 1, 0), faceIndex |-> 4]
                         ELSE [normal |-> Vec(0, -1, 0), faceIndex |-> 5])

\* face.texture->sample(u, v) for a mesh whose six textures are one pixel
\* each: the pixel of the face, whatever u and v.
SampleFace(mesh, faceIndex) == [tint |-> mesh.tint, a |-> mesh.alpha[faceIndex]]

\* The slab loop (l.525-554), axis by axis: st.miss is the early return.
RECURSIVE SlabLoop(_, _, _, _)
SlabLoop(i, ray, mesh, st) ==
    IF i > 2 THEN st
    ELSE LET d == ray.direction[i]
             o == ray.origin[i]
             ta == (mesh.boxMin[i] - o) * d
             tb == (mesh.boxMax[i] - o) * d
             t0 == IF ta > tb THEN tb ELSE ta
             t1 == IF ta > tb THEN ta ELSE tb
             enterNeg == ~(ta > tb)
             tmin == IF t0 > st.tmin THEN t0 ELSE st.tmin
             tmax == Min(st.tmax, t1)
         IN  IF d = 0
             THEN (IF o < mesh.boxMin[i] \/ o > mesh.boxMax[i]
                   THEN [st EXCEPT !.miss = TRUE]
                   ELSE SlabLoop(i + 1, ray, mesh, st))
             ELSE IF tmin > tmax \/ tmax < 0
             THEN [st EXCEPT !.miss = TRUE]
             ELSE SlabLoop(i + 1, ray, mesh,
                      [tmin |-> tmin, tmax |-> tmax,
                       hitAxis |-> IF t0 > st.tmin THEN i ELSE st.hitAxis,
                       hitNegSide |-> IF t0 > st.tmin THEN enterNeg ELSE st.hitNegSide,
                       miss |-> FALSE])

\* The exit face loop (l.567-591, and again l.623-639): the axis with the
\* smallest t1, parallel axes skipped.
RECURSIVE ExitFaceLoop(_, _, _, _)
ExitFaceLoop(i, ray, mesh, st) ==
    IF i > 2 THEN st
    ELSE LET d == ray.direction[i]
             o == ray.origin[i]
             ta == (mesh.boxMin[i] - o) * d
             tb == (mesh.boxMax[i] - o) * d
             t1 == IF ta > tb THEN ta ELSE tb
             exitNeg == ta > tb
         IN  IF d = 0 THEN ExitFaceLoop(i + 1, ray, mesh, st)
             ELSE IF t1 < st.tmaxRecalc
             THEN ExitFaceLoop(i + 1, ray, mesh,
                      [tmaxRecalc |-> t1, exitAxis |-> i, exitNegSide |-> exitNeg])
             ELSE ExitFaceLoop(i + 1, ray, mesh, st)

ExitFace(ray, mesh) ==
    ExitFaceLoop(0, ray, mesh,
                 [tmaxRecalc |-> FloatMax, exitAxis |-> 0, exitNegSide |-> FALSE])

\* if (tmax > tHit): the guard of the outer layer's exit face fallback.
FallbackAlways(tmax, tHit) == TRUE
FallbackGuard(tmax, tHit) == tmax > tHit

\* if (tHit < 0.0f): the ray starts inside the box.
StartsInsideNever(tHit) == FALSE
StartsInside(tHit) == tHit < 0

\* if (!mesh.isOuterLayer) return result; after a transparent sample.
TransparentIsMiss(mesh) == ~mesh.isOuterLayer

\* if (texColor.a == 0.0f)
NeverTransparent(color) == FALSE
IsTransparent(color) == color.a = 0

\* if (backTexColor.a > 0.0f)
ExitSampleAny(color) == color.a >= 0
ExitSampleVisible(color) == color.a > 0

\* intersectMesh (l.504-675). exitSamples counts the samples of the exit
\* face taken by the outer layer fallback.
IntersectMesh(ray, mesh) ==
    IF mesh.empty THEN NoHit
    ELSE
    LET slab == SlabLoop(0, ray, mesh,
                    [tmin |-> -FloatMax, tmax |-> FloatMax, hitAxis |-> 0,
                     hitNegSide |-> FALSE, miss |-> FALSE])
        inside == StartsInside(slab.tmin)
        tHit == IF inside THEN slab.tmax ELSE slab.tmin
        exit == ExitFace(ray, mesh)
        hitAxis == IF inside THEN exit.exitAxis ELSE slab.hitAxis
        hitNegSide == IF inside THEN exit.exitNegSide ELSE slab.hitNegSide
        face == DetermineFace(hitAxis, hitNegSide)
        texColor == SampleFace(mesh, face.faceIndex)
        backFace == DetermineFace(exit.exitAxis, exit.exitNegSide)
        backTexColor == SampleFace(mesh, backFace.faceIndex)
    IN  IF slab.miss THEN NoHit
        ELSE IF inside /\ tHit < 0 THEN NoHit
        ELSE IF IsTransparent(texColor)
        THEN (IF TransparentIsMiss(mesh) THEN NoHit
              ELSE IF FallbackGuard(slab.tmax, tHit)
              THEN (IF ExitSampleVisible(backTexColor)
                    THEN [hit |-> TRUE, t |-> slab.tmax,
                          normal |-> [i \in Axes |-> -backFace.normal[i]],
                          textureColor |-> backTexColor,
                          isOuterLayer |-> TRUE, exitSamples |-> 1]
                    ELSE [NoHit EXCEPT !.exitSamples = 1])
              ELSE NoHit)
        ELSE [hit |-> TRUE, t |-> tHit, normal |-> face.normal,
              textureColor |-> texColor, isOuterLayer |-> mesh.isOuterLayer,
              exitSamples |-> 0]

\* hit.hit && hit.t < closest.t
Closer(hit, closest) == hit.hit /\ hit.t < closest.t

\* intersectScene (l.677-690): the loop over scene.meshes from mesh k on.
RECURSIVE SceneLoop(_, _, _, _)
SceneLoop(k, ray, meshList, closest) ==
    IF k > Len(meshList) THEN closest
    ELSE LET hit == IntersectMesh(ray, meshList[k])
         IN  SceneLoop(k + 1, ray, meshList,
                       IF Closer(hit, closest) THEN hit ELSE closest)

IntersectScene(ray, meshList) ==
    SceneLoop(1, ray, meshList, [NoHit EXCEPT !.t = FloatMax])


\* ------------------------------------------------------------- float
\* A float is a finite value (an integer of magnitude up to FloatMax here),
\* an infinity or a NaN; the operations follow IEEE 754.
Fin(v) == [k |-> "fin", v |-> v]

NaN == [k |-> "nan", v |-> 0]

PosInf == [k |-> "inf", v |-> 1]

NegInf == [k |-> "inf", v |-> -1]

Sign(x) == IF x > 0 THEN 1 ELSE IF x < 0 THEN -1 ELSE 0

\* The result of an operation on finite values: beyond FloatMax an infinity.
Rounded(v) ==
    IF v > FloatMax THEN PosInf ELSE IF v < -FloatMax THEN NegInf ELSE Fin(v)

FMul(a, b) ==
    IF a.k = "nan" \/ b.k = "nan" THEN NaN
    ELSE IF a.k = "fin" /\ b.k = "fin" THEN Rounded(a.v * b.v)
    ELSE IF a.v = 0 \/ b.v = 0 THEN NaN
    ELSE [k |-> "inf", v |-> Sign(a.v) * Sign(b.v)]

FNeg(a) == [a EXCEPT !.v = -a.v]

FAdd(a, b) ==
    IF a.k = "nan" \/ b.k = "nan" THEN NaN
    ELSE IF a.k = "fin" /\ b.k = "fin" THEN Rounded(a.v + b.v)
    ELSE IF a.k = "inf" /\ b.k = "inf" THEN (IF a.v = b.v THEN a ELSE NaN)
    ELSE IF a.k = "inf" THEN a ELSE b

FSub(a, b) == FAdd(a, FNeg(b))

\* operator<: false if an operand is a NaN.
FLess(a, b) ==
    /\ a.k # "nan"
    /\ b.k # "nan"
    /\ IF a.k = "fin" /\ b.k = "fin" THEN a.v < b.v
       ELSE IF a.k = "inf" /\ b.k = "inf" THEN a.v < b.v
       ELSE IF a.k = "inf" THEN a.v < 0 ELSE b.v > 0

\* std::clamp(v, lo, hi): (v < lo) ? lo : (hi < v) ? hi : v
StdClamp(v, lo, hi) == IF FLess(v, lo) THEN lo ELSE IF FLess(hi, v) THEN hi ELSE v

VARIABLES
    \* generateTiles called on its own
    gtArgs,         \* [w, h, ts]: the arguments
    gtPc,           \* "ready", "returned"
    gtResult,       \* the outcome of the call
    \* TileRenderer::render
    config,         \* RayTracer::Config: the fields render and renderTile read
    hasCallback,    \* whether progressCallback is non-null
    hardware,       \* what hardware_concurrency() returned, 0 before the call
    mainPc,         \* the calling thread: "start", "launch", "join", "returned", "aborted"
    tiles,          \* std::vector<Tile> tiles
    totalTiles,
    numThreads,
    launched,       \* threads.size() so far
    joined,         \* threads joined so far
    nextTile,       \* std::atomic<int>
    completedTiles, \* std::atomic<int>
    wpc,            \* each worker's position
    widx,           \* each worker's idx
    wdone,          \* each worker's done
    wexc,           \* the exception a worker is handling
    output,         \* Image output: [width, height, pixels]
    errors_,        \* static std::vector<TileError>
    cbLog,          \* the callback's invocations, in invocation order
    claims,         \* history: how often each tile index was claimed
    writes,         \* history: how often each pixel was written
    cbCalls,        \* history: callback invocations per finished tile
    renderCalls,    \* history: renderTile invocations per tile index
    threwAt,        \* history: the tile indices whose renderTile threw
    \* RayTracer::traceRay
    trArgs,         \* the top-level call: depth, maxBounces, config, scene
    trPc,           \* "ready", "entry", "resume", "done"
    trStack,        \* the activation records of traceRay, innermost last
    trRet,          \* the value the last return passed to its caller
    trCalls,        \* history: invocations of traceRay
    trIntersects,   \* history: calls of intersectScene
    trShades,       \* history: calls of shade
    \* Mesh objects
    meshLive,       \* which Mesh storage holds a live object
    meshes,         \* the Mesh in each storage: triangles, ownedTextures
    meshOp,         \* history: the last operation, its source and target
    \* intersectScene
    ixRay,          \* the ray: origin, direction
    ixScene,        \* scene.meshes
    ixPc,           \* "ready", "returned"
    ixResult,       \* the HitResult intersectScene returned
    ixMeshHits,     \* history: what intersectMesh returned for each mesh
    \* isInShadow
    shArgs,         \* point, normal, lightPos, scene
    shPc,           \* "ready", "returned"
    shResult,       \* the value returned
    shTrace,        \* history: the shadow ray, the distance, the scene hit
    \* MeshBuilder::buildScene
    bsSkin,         \* SkinData: inner and outer textures of the body parts
    bsPose,         \* Pose: which body parts are rotated
    bsPc,           \* "ready", "returned"
    bsMeshes,       \* scene.meshes of the Scene returned
    \* CameraController
    ccYaw,          \* yaw_
    ccPitch,        \* pitch_
    ccSens,         \* mouseSensitivity_
    ccLast,         \* history: the member function called last
    \* MainWindow
    mwPc,           \* "none", "alive", "destroyed"
    mwScene,        \* scene_: skin, pose, light, camera
    mwBounce,       \* bounceCountValue_
    mwControls,     \* enabled flags: fetchBtn, renderBtn, others
    mwPending,      \* skin fetches whose reply has not been delivered
    mwThreads,      \* the render threads started: state, captures, reads
    mwHandle,       \* the thread renderThread_ owns, 0 if not joinable
    mwFinished,     \* the queued onRenderFinished invocations
    mwRendering,    \* history: onRenderExport ran, onRenderFinished not yet
    \* SkinFetcher
    sfUsername,     \* username_
    sfChains,       \* the reply chains started by fetch: user, step
    sfSignals,      \* history: the signals emitted, in order
    \* traceRay's shading of a hit
    ssArgs,         \* the config, the light and the occlusion of the light's disk
    ssPc,           \* "none", "shaded"
    ssVisibility,   \* the visibility factor shade used, in hundredths
    \* a box of buildScene and a ray against it
    bfTriangles,    \* mesh.triangles of the box
    bfPc,           \* "none", "built", "hit"
    bfRay,          \* the ray
    bfHit,          \* what intersectMesh returned
    \* two calls of render at the same time
    crPc,           \* per call: "idle", "clearing", "running", "returned"
    crNextTile,     \* per call: nextTile
    crWorker,       \* per call and worker: "claim", "caught", "locked", "pushing", "exit"
    crTile,         \* per call and worker: the tile whose error is to be recorded
    crMutex,        \* per call: the worker that holds errorMutex, 0 for none
    crErrors,       \* TileRenderer::errors_, shared by the calls
    crModifying,    \* the threads inside a modification of errors_
    crOverlapped,   \* the threads whose modification overlapped another one
    crRecorded      \* history: the entries whose push_back completed

gtVars == <<gtArgs, gtPc, gtResult>>

rVars == <<config, hasCallback, hardware, mainPc, tiles, totalTiles, numThreads, launched,
           joined, nextTile, completedTiles, wpc, widx, wdone, wexc, output,
           errors_, cbLog, claims, writes, cbCalls, renderCalls, threwAt>>

trVars == <<trArgs, trPc, trStack, trRet, trCalls, trIntersects, trShades>>

mVars == <<meshLive, meshes, meshOp>>

ixVars == <<ixRay, ixScene, ixPc, ixResult, ixMeshHits>>

shVars == <<shArgs, shPc, shResult, shTrace>>

bsVars == <<bsSkin, bsPose, bsPc, bsMeshes>>

ccVars == <<ccYaw, ccPitch, ccSens, ccLast>>

mwVars == <<mwPc, mwScene, mwBounce, mwControls, mwPending, mwThreads, mwHandle,
            mwFinished, mwRendering>>

sfVars == <<sfUsername, sfChains, sfSignals>>

ssVars == <<ssArgs, ssPc, ssVisibility>>

bfVars == <<bfTriangles, bfPc, bfRay, bfHit>>

crVars == <<crPc, crNextTile, crWorker, crTile, crMutex, crErrors, crModifying, crOverlapped, crRecorded>>

lastVars == <<ccVars, mwVars, sfVars, ssVars, bfVars, crVars>>

laterVars == <<ixVars, shVars, bsVars, lastVars>>

earlierVars == <<gtVars, rVars, trVars, mVars, ixVars, shVars, bsVars>>

exceptCc == <<earlierVars, mwVars, sfVars, ssVars, bfVars, crVars>>

exceptSf == <<earlierVars, ccVars, mwVars, ssVars, bfVars, crVars>>

exceptSs == <<earlierVars, ccVars, mwVars, sfVars, bfVars, crVars>>

exceptBf == <<earlierVars, ccVars, mwVars, sfVars, ssVars, crVars>>

exceptCr == <<earlierVars, ccVars, mwVars, sfVars, ssVars, bfVars>>

exceptMw == <<earlierVars, ccVars, sfVars, ssVars, bfVars, crVars>>

vars == <<gtVars, rVars, trVars, mVars, laterVars>>

Workers == 1..MaxThreads

\* ------------------------------------------------- generateTiles on its own
\* Tile sizes tried: small ones, and the two largest ints.
TileSizes == (1..MaxTileSize + 2) \cup {IntMax - 1, IntMax}

GtIdle ==
    /\ gtArgs = [w |-> 1, h |-> 1, ts |-> 1]
    /\ gtPc = "ready"
    /\ gtResult = [thrown |-> FALSE, tiles |-> << >>]

GtInit ==
    /\ gtArgs \in [w : 1..MaxDim + 2, h : 1..MaxDim + 2, ts : TileSizes]
    /\ gtPc = "ready"
    /\ gtResult = [thrown |-> FALSE, tiles |-> << >>]

GtCall ==
    /\ gtPc = "ready"
    /\ \E out \in GenerateTilesOutcomes(gtArgs.w, gtArgs.h, gtArgs.ts) :
         gtResult' = out
    /\ gtPc' = "returned"
    /\ UNCHANGED <<gtArgs, rVars, trVars, mVars, laterVars>>

GtNext == GtCall

\* ---------------------------------------------------- render: the actions
\* Sampling: one sample through the pixel centre (the generator is not used),
\* or two jittered samples with depth of field (every draw of the generator).
RenderConfigs ==
    {c \in [width : 1..MaxDim, height : 1..MaxDim, tileSize : 0..MaxTileSize,
            threadCount : 0..MaxThreads, samplesPerPixel : 1..2,
            dofEnabled : BOOLEAN] :
        /\ Len(GenerateTiles(c.width, c.height, c.tileSize).tiles) <= MaxTiles
        /\ c.dofEnabled = (c.samplesPerPixel = 2)}

KeepErrors(errors) == errors

\* errors_.clear()
ClearErrors(errors) == << >>

\* errors_ is static: it may hold the entries of an earlier render.
StaleErrors == {<< >>, <<[tileIndex |-> 0, message |-> "what"]>>}

RIdle ==
    /\ config = [width |-> 1, height |-> 1, tileSize |-> 1, threadCount |-> 1,
                 samplesPerPixel |-> 1, dofEnabled |-> FALSE]
    /\ hasCallback = FALSE
    /\ hardware = 0
    /\ mainPc = "start"
    /\ tiles = << >>
    /\ totalTiles = 0
    /\ numThreads = 0
    /\ launched = 0
    /\ joined = 0
    /\ nextTile = 0
    /\ completedTiles = 0
    /\ wpc = [w \in Workers |-> "idle"]
    /\ widx = [w \in Workers |-> 0]
    /\ wdone = [w \in Workers |-> 0]
    /\ wexc = [w \in Workers |-> "none"]
    /\ output = [width |-> 0, height |-> 0, pixels |-> << >>]
    /\ errors_ = << >>
    /\ cbLog = << >>
    /\ claims = << >>
    /\ writes = << >>
    /\ cbCalls = << >>
    /\ renderCalls = << >>
    /\ threwAt = {}

RInit ==
    /\ config \in RenderConfigs
    /\ hasCallback \in BOOLEAN
    /\ hardware = 0
    /\ mainPc = "start"
    /\ tiles = << >>
    /\ totalTiles = 0
    /\ numThreads = 0
    /\ launched = 0
    /\ joined = 0
    /\ nextTile = 0
    /\ completedTiles = 0
    /\ wpc = [w \in Workers |-> "idle"]
    /\ widx = [w \in Workers |-> 0]
    /\ wdone = [w \in Workers |-> 0]
    /\ wexc = [w \in Workers |-> "none"]
    /\ output = [width |-> 0, height |-> 0, pixels |-> << >>]
    /\ errors_ \in StaleErrors
    /\ cbLog = << >>
    /\ claims = << >>
    /\ writes = << >>
    /\ cbCalls = << >>
    /\ renderCalls = << >>
    /\ threwAt = {}

\* render up to the launch of the workers (l.280-299): thread count, tiles,
\* output image, errors_.clear(), the early return without tiles.
Start ==
    /\ mainPc = "start"
    /\ \E hw \in (IF config.threadCount <= 0 THEN 0..MaxThreads ELSE {0}) :
         LET gt == GenerateTiles(config.width, config.height, config.tileSize)
             n == Len(gt.tiles)
         IN  /\ hardware' = hw
             /\ tiles' = gt.tiles
             /\ totalTiles' = n
             /\ numThreads' = IF gt.thrown \/ n = 0 THEN 0
                              ELSE Min(EffectiveThreadCount(config.threadCount, hw), n)
             /\ mainPc' = IF gt.thrown THEN "aborted"
                          ELSE IF n = 0 THEN "returned" ELSE "launch"
             /\ output' = IF gt.thrown THEN output
                          ELSE [width |-> config.width, height |-> config.height,
                                pixels |-> NewPixels(config.width, config.height)]
             /\ errors_' = IF gt.thrown THEN errors_ ELSE ClearErrors(errors_)
             /\ claims' = [i \in 0..(n - 1) |-> 0]
             /\ renderCalls' = [i \in 0..(n - 1) |-> 0]
             /\ cbCalls' = [i \in 0..(n - 1) |-> 0]
             /\ writes' = [i \in 0..(config.width * config.height - 1) |-> 0]
    /\ UNCHANGED <<config, hasCallback, launched, joined, nextTile, completedTiles,
                   wpc, widx, wdone, wexc, cbLog, threwAt, gtVars, trVars, mVars, laterVars>>

\* threads.emplace_back(worker), one thread per step (l.328-330).
Launch ==
    /\ mainPc = "launch"
    /\ launched < numThreads
    /\ launched' = launched + 1
    /\ wpc' = [wpc EXCEPT ![launched + 1] = "claim"]
    /\ mainPc' = IF launched + 1 = numThreads THEN "join" ELSE "launch"
    /\ UNCHANGED <<config, hasCallback, hardware, tiles, totalTiles, numThreads, joined,
                   nextTile, completedTiles, widx, wdone, wexc, output, errors_,
                   cbLog, claims, writes, cbCalls, renderCalls, threwAt, gtVars, trVars, mVars, laterVars>>

\* int idx = nextTile.fetch_add(1); if (idx >= totalTiles) break; (l.303-304)
Claim(w) ==
    /\ wpc[w] = "claim"
    /\ nextTile' = FetchAdd(nextTile)
    /\ IF nextTile >= totalTiles
       THEN /\ wpc' = [wpc EXCEPT ![w] = "exit"]
            /\ UNCHANGED <<widx, claims>>
       ELSE /\ wpc' = [wpc EXCEPT ![w] = "render"]
            /\ widx' = [widx EXCEPT ![w] = nextTile]
            /\ claims' = [claims EXCEPT ![nextTile] = @ + 1]
    /\ UNCHANGED <<config, hasCallback, hardware, mainPc, tiles, totalTiles, numThreads,
                   launched, joined, completedTiles, wdone, wexc, output, errors_,
                   cbLog, writes, cbCalls, renderCalls, threwAt, gtVars, trVars, mVars, laterVars>>

\* renderTile(tiles[idx], ...) returns normally (l.307).
RenderTileOk(w) ==
    /\ wpc[w] = "render"
    /\ LET tile == tiles[widx[w] + 1]
           n == tile.width * tile.height
       IN  /\ output' = [output EXCEPT !.pixels =
                            RenderTilePixels(tile, config, w, n, @)]
           /\ writes' = [i \in DOMAIN writes |->
                            IF i \in TileWrites(tile, config, n)
                            THEN writes[i] + 1 ELSE writes[i]]
    /\ renderCalls' = [renderCalls EXCEPT ![widx[w]] = @ + 1]
    /\ wpc' = [wpc EXCEPT ![w] = "count"]
    /\ UNCHANGED <<config, hasCallback, hardware, mainPc, tiles, totalTiles, numThreads,
                   launched, joined, nextTile, completedTiles, widx, wdone, wexc,
                   errors_, cbLog, claims, cbCalls, threwAt, gtVars, trVars, mVars, laterVars>>

\* renderTile throws, a std::exception or something else, after it has
\* written k pixels of the tile: none, or all but the last.
RenderTileThrows(w) ==
    /\ wpc[w] = "render"
    /\ Cardinality(threwAt) < MaxThrows
    /\ LET tile == tiles[widx[w] + 1]
           n == tile.width * tile.height
       IN  \E k \in {0, n - 1} :
             /\ output' = [output EXCEPT !.pixels =
                              RenderTilePixels(tile, config, w, k, @)]
             /\ writes' = [i \in DOMAIN writes |->
                              IF i \in TileWrites(tile, config, k)
                              THEN writes[i] + 1 ELSE writes[i]]
    /\ \E kind \in {"std", "other"} : wexc' = [wexc EXCEPT ![w] = kind]
    /\ renderCalls' = [renderCalls EXCEPT ![widx[w]] = @ + 1]
    /\ threwAt' = threwAt \cup {widx[w]}
    /\ wpc' = [wpc EXCEPT ![w] = "catch"]
    /\ UNCHANGED <<config, hasCallback, hardware, mainPc, tiles, totalTiles, numThreads,
                   launched, joined, nextTile, completedTiles, widx, wdone,
                   errors_, cbLog, claims, cbCalls, gtVars, trVars, mVars, laterVars>>

\* The catch clauses (l.308-314): under errorMutex, errors_.push_back. An
\* exception no clause catches leaves the thread function: std::terminate.
CatchError(w) ==
    /\ wpc[w] = "catch"
    /\ IF Catches(wexc[w])
       THEN /\ errors_' = Append(errors_, [tileIndex |-> widx[w],
                                           message |-> CatchMessage(wexc[w])])
            /\ wpc' = [wpc EXCEPT ![w] = AfterCatch(w)]
            /\ mainPc' = mainPc
       ELSE /\ errors_' = errors_
            /\ wpc' = [wpc EXCEPT ![w] = "uncaught"]
            /\ mainPc' = "aborted"
    /\ wexc' = [wexc EXCEPT ![w] = "none"]
    /\ UNCHANGED <<config, hasCallback, hardware, tiles, totalTiles, numThreads, launched,
                   joined, nextTile, completedTiles, widx, wdone, output, cbLog,
                   claims, writes, cbCalls, renderCalls, threwAt, gtVars, trVars, mVars, laterVars>>

\* int done = completedTiles.fetch_add(1) + 1; (l.316)
CountDone(w) ==
    /\ wpc[w] = "count"
    /\ completedTiles' = completedTiles + 1
    /\ IF hasCallback
       THEN /\ wdone' = [wdone EXCEPT ![w] = completedTiles + 1]
            /\ wpc' = [wpc EXCEPT ![w] = "notify"]
            /\ widx' = widx
       ELSE /\ wdone' = wdone
            /\ wpc' = [wpc EXCEPT ![w] = WorkerLoops(w)]
            /\ widx' = [widx EXCEPT ![w] = 0]
    /\ UNCHANGED <<config, hasCallback, hardware, mainPc, tiles, totalTiles, numThreads,
                   launched, joined, nextTile, wexc, output, errors_, cbLog,
                   claims, writes, cbCalls, renderCalls, threwAt, gtVars, trVars, mVars, laterVars>>

\* Under progressMutex: progressCallback(done, totalTiles) (l.317-320). The
\* lock makes the invocations a sequence. idx and done are dead afterwards.
Notify(w) ==
    /\ wpc[w] = "notify"
    /\ cbLog' = Append(cbLog, [done |-> wdone[w], total |-> totalTiles])
    /\ cbCalls' = [cbCalls EXCEPT ![widx[w]] = @ + 1]
    /\ wdone' = [wdone EXCEPT ![w] = 0]
    /\ wpc' = [wpc EXCEPT ![w] = WorkerLoops(w)]
    /\ widx' = [widx EXCEPT ![w] = 0]
    /\ UNCHANGED <<config, hasCallback, hardware, mainPc, tiles, totalTiles, numThreads,
                   launched, joined, nextTile, completedTiles, wexc, output,
                   errors_, claims, writes, renderCalls, threwAt, gtVars, trVars, mVars, laterVars>>

\* for (auto& t : threads) t.join(); in order, then return output (l.332-336).
Join ==
    /\ mainPc = "join"
    /\ joined < numThreads
    /\ wpc[joined + 1] = "exit"
    /\ joined' = joined + 1
    /\ wpc' = [wpc EXCEPT ![joined + 1] = "joined"]
    /\ mainPc' = IF joined + 1 = numThreads THEN "returned" ELSE "join"
    /\ UNCHANGED <<config, hasCallback, hardware, tiles, totalTiles, numThreads, launched,
                   nextTile, completedTiles, widx, wdone, wexc, output, errors_,
                   cbLog, claims, writes, cbCalls, renderCalls, threwAt, gtVars, trVars, mVars, laterVars>>

WorkerStep(w) ==
    \/ Claim(w)
    \/ RenderTileOk(w)
    \/ RenderTileThrows(w)
    \/ CatchError(w)
    \/ CountDone(w)
    \/ Notify(w)

Next ==
    \/ Start
    \/ Launch
    \/ Join
    \/ \E w \in Workers : WorkerStep(w)

\* ------------------------------------------------------ traceRay: the call
AoSamples == 2      \* config->aoSamples: intersectScene calls of one computeAO

BgCenter == [c |-> 91, a |-> 50]
BgEdge == [c |-> 56, a |-> 100]

NoConfig ==
    [present |-> FALSE, gradientBg |-> FALSE, aoEnabled |-> FALSE,
     bgCenter |-> BgCenter, bgEdge |-> BgEdge]

\* const Config* config: nullptr, or a Config with its background and
\* ambient occlusion switches.
TraceConfigs ==
    {NoConfig} \cup
    [present : {TRUE}, gradientBg : BOOLEAN, aoEnabled : BOOLEAN,
     bgCenter : {BgCenter}, bgEdge : {BgEdge}]

\* scene.backgroundColor is caller data: in range or not.
Scenes == {[backgroundColor |-> [c |-> 20, a |-> 100]],
           [backgroundColor |-> [c |-> 150, a |-> 100]]}

\* What shade can return for a hit, and the factors computeAO can lead to.
ShadedColors == {[c |-> 80, a |-> 100], [c |-> 40, a |-> 50]}

AoFactors(cfg, depth) ==
    IF cfg.present /\ cfg.aoEnabled /\ depth = 0 THEN {60, 100} ELSE {100}

AoIntersects(cfg, depth) ==
    IF cfg.present /\ cfg.aoEnabled /\ depth = 0 THEN AoSamples ELSE 0

Frame(depth) ==
    [depth |-> depth, shadedColor |-> [c |-> 0, a |-> 100], originalAlpha |-> 0]

TrIdle ==
    /\ trArgs = [depth |-> 0, maxBounces |-> 0, config |-> NoConfig,
                 scene |-> [backgroundColor |-> [c |-> 20, a |-> 100]]]
    /\ trPc = "ready"
    /\ trStack = << >>
    /\ trRet = [c |-> 0, a |-> 100]
    /\ trCalls = 0
    /\ trIntersects = 0
    /\ trShades = 0

TrInit ==
    /\ trArgs \in [depth : 0..(MaxBounces + 2), maxBounces : (-1)..MaxBounces,
                   config : TraceConfigs, scene : Scenes]
    /\ trPc = "ready"
    /\ trStack = << >>
    /\ trRet = [c |-> 0, a |-> 100]
    /\ trCalls = 0
    /\ trIntersects = 0
    /\ trShades = 0

\* The innermost activation.
TrTop == trStack[Len(trStack)]

\* return col; the caller, if there is one, resumes after its recursive call.
TrReturn(col) ==
    /\ trRet' = col
    /\ trStack' = SubSeq(trStack, 1, Len(trStack) - 1)
    /\ trPc' = IF Len(trStack) = 1 THEN "done" ELSE "resume"

\* The caller invokes traceRay(ray, scene, depth, maxBounces, params, config).
TrCall ==
    /\ trPc = "ready"
    /\ trStack' = <<Frame(trArgs.depth)>>
    /\ trCalls' = 1
    /\ trPc' = "entry"
    /\ UNCHANGED <<trArgs, trRet, trIntersects, trShades, gtVars, rVars, mVars, laterVars>>

\* l.86-90: depth > maxBounces.
TrBaseCase ==
    /\ trPc = "entry"
    /\ BaseCaseReached(TrTop.depth, trArgs.maxBounces)
    /\ TrReturn(BaseCaseColor(trArgs.scene, trArgs.config))
    /\ UNCHANGED <<trArgs, trCalls, trIntersects, trShades, gtVars, rVars, mVars, laterVars>>

\* l.92-102: intersectScene finds nothing.
TrMiss ==
    /\ trPc = "entry"
    /\ ~BaseCaseReached(TrTop.depth, trArgs.maxBounces)
    /\ trIntersects' = trIntersects + 1
    /\ TrReturn(MissColor(trArgs.scene, TrTop.depth, trArgs.config))
    /\ UNCHANGED <<trArgs, trCalls, trShades, gtVars, rVars, mVars, laterVars>>

\* l.92-135 with a hit: shade, ambient occlusion, and either the recursive
\* call for the reflection ray or the return of the shaded colour.
TrHit ==
    /\ trPc = "entry"
    /\ ~BaseCaseReached(TrTop.depth, trArgs.maxBounces)
    /\ trIntersects' = trIntersects + 1 + AoIntersects(trArgs.config, TrTop.depth)
    /\ trShades' = trShades + 1
    /\ \E col \in ShadedColors, aoFactor \in AoFactors(trArgs.config, TrTop.depth) :
         LET shaded == ApplyAO(col, aoFactor) IN
         IF ReflectCondition(TrTop.depth, trArgs.maxBounces)
         THEN /\ trStack' = Append(
                     [trStack EXCEPT ![Len(trStack)] =
                         [depth |-> TrTop.depth, shadedColor |-> shaded,
                          originalAlpha |-> col.a]],
                     Frame(TrTop.depth + 1))
              /\ trCalls' = trCalls + 1
              /\ trPc' = "entry"
              /\ trRet' = trRet
         ELSE /\ TrReturn(FinishColor(shaded, col.a))
              /\ trCalls' = trCalls
    /\ UNCHANGED <<trArgs, gtVars, rVars, mVars, laterVars>>

\* l.130-135: the recursive call has returned reflectedColor.
TrResume ==
    /\ trPc = "resume"
    /\ TrReturn(FinishColor(Blend(TrTop.shadedColor, trRet), TrTop.originalAlpha))
    /\ UNCHANGED <<trArgs, trCalls, trIntersects, trShades, gtVars, rVars, mVars, laterVars>>

TrNext ==
    \/ TrCall
    \/ TrBaseCase
    \/ TrMiss
    \/ TrHit
    \/ TrResume

\* ------------------------------------------------- Mesh: copies and moves
MeshIds == 1..MaxMeshes

Parts == 1..MaxParts

MInit ==
    /\ meshLive = [m \in MeshIds |-> FALSE]
    /\ meshes = [m \in MeshIds |-> DefaultMesh]
    /\ meshOp = [op |-> "none", src |-> 0, dst |-> 0]

MIdle == MInit

\* The moved-from Mesh: its triangles vector is empty, each of its texture
\* regions has given its pixels away.
MovedFromMesh(mesh) ==
    [triangles |-> << >>,
     ownedTextures |-> [i \in Faces |-> MovedFromRegion(mesh.ownedTextures[i])]]

\* Mesh mesh = buildBox(tex, ...): the box is built in the storage dst.
BuildBox(dst) ==
    /\ ~meshLive[dst]
    /\ \E tex \in Parts : meshes' = [meshes EXCEPT ![dst] = BuildBoxMesh(dst, tex)]
    /\ meshLive' = [meshLive EXCEPT ![dst] = TRUE]
    /\ meshOp' = [op |-> "buildBox", src |-> 0, dst |-> dst]
    /\ UNCHANGED <<gtVars, rVars, trVars, laterVars>>

\* Mesh(const Mesh& other), constructing in the storage dst.
CopyConstruct(src, dst) ==
    /\ meshLive[src]
    /\ ~meshLive[dst]
    /\ meshes' = [meshes EXCEPT ![dst] =
            [triangles |-> FixupTexturePointers(meshes[src].triangles, src, dst),
             ownedTextures |-> meshes[src].ownedTextures]]
    /\ meshLive' = [meshLive EXCEPT ![dst] = TRUE]
    /\ meshOp' = [op |-> "copyConstruct", src |-> src, dst |-> dst]
    /\ UNCHANGED <<gtVars, rVars, trVars, laterVars>>

\* Mesh& operator=(const Mesh& other), on the object dst.
CopyAssign(src, dst) ==
    /\ meshLive[src]
    /\ meshLive[dst]
    /\ meshes' = IF dst # src
                 THEN [meshes EXCEPT ![dst] =
                        [triangles |-> FixupTexturePointers(meshes[src].triangles, src, dst),
                         ownedTextures |-> meshes[src].ownedTextures]]
                 ELSE meshes
    /\ meshOp' = [op |-> "copyAssign", src |-> src, dst |-> dst]
    /\ UNCHANGED <<meshLive, gtVars, rVars, trVars, laterVars>>

\* Mesh(Mesh&& other), constructing in the storage dst.
MoveConstruct(src, dst) ==
    /\ meshLive[src]
    /\ ~meshLive[dst]
    /\ meshes' = [meshes EXCEPT
            ![dst] = [triangles |->
                         FixupTexturePointersAfterMove(meshes[src].triangles, src, dst),
                      ownedTextures |-> meshes[src].ownedTextures],
            ![src] = MovedFromMesh(meshes[src])]
    /\ meshLive' = [meshLive EXCEPT ![dst] = TRUE]
    /\ meshOp' = [op |-> "moveConstruct", src |-> src, dst |-> dst]
    /\ UNCHANGED <<gtVars, rVars, trVars, laterVars>>

\* Mesh& operator=(Mesh&& other), on the object dst.
MoveAssign(src, dst) ==
    /\ meshLive[src]
    /\ meshLive[dst]
    /\ meshes' = IF dst # src
                 THEN [meshes EXCEPT
                        ![dst] = [triangles |->
                                     FixupTexturePointersAfterMove(meshes[src].triangles, src, dst),
                                  ownedTextures |-> meshes[src].ownedTextures],
                        ![src] = MovedFromMesh(meshes[src])]
                 ELSE meshes
    /\ meshOp' = [op |-> "moveAssign", src |-> src, dst |-> dst]
    /\ UNCHANGED <<meshLive, gtVars, rVars, trVars, laterVars>>

\* ~Mesh(): a temporary, a local or a vector element goes away.
Destroy(m) ==
    /\ meshLive[m]
    /\ meshLive' = [meshLive EXCEPT ![m] = FALSE]
    /\ meshes' = [meshes EXCEPT ![m] = DefaultMesh]
    /\ meshOp' = [op |-> "destroy", src |-> m, dst |-> 0]
    /\ UNCHANGED <<gtVars, rVars, trVars, laterVars>>

MNext ==
    \/ \E dst \in MeshIds : BuildBox(dst)
    \/ \E src, dst \in MeshIds : CopyConstruct(src, dst)
    \/ \E src, dst \in MeshIds : CopyAssign(src, dst)
    \/ \E src, dst \in MeshIds : MoveConstruct(src, dst)
    \/ \E src, dst \in MeshIds : MoveAssign(src, dst)
    \/ \E m \in MeshIds : Destroy(m)

\* ------------------------------------------------ intersectScene: the call
MaxOrigin == 3      \* ray origins have x, y in -MaxOrigin..MaxOrigin
ShellOffset == 1    \* the offset of the outer layer's box around the inner one

\* The six one-pixel textures of a box, by their alpha: all opaque, all
\* transparent, or one face different from the other five.
PatternFaces == {3, 4}

AllAlpha(a) == [f \in Faces |-> a]

AlphaPatterns ==
    {AllAlpha(1), AllAlpha(0)}
    \cup {[AllAlpha(1) EXCEPT ![f] = 0] : f \in PatternFaces}
    \cup {[AllAlpha(0) EXCEPT ![f] = 1] : f \in PatternFaces}

\* A Mesh as intersectMesh reads it: the box computeAABB finds from the
\* triangles, isOuterLayer, the face textures, and whether it has triangles.
BoxMesh(lo, hi, outer, alpha, tint) ==
    [boxMin |-> lo, boxMax |-> hi, isOuterLayer |-> outer, alpha |-> alpha,
     tint |-> tint, empty |-> FALSE]

InnerBox(alpha, tint, outer) ==
    BoxMesh(Vec(-1, -1, -1), Vec(1, 1, 1), outer, alpha, tint)

\* buildBox with offset > 0 around the same centre: an outer layer.
ShellBox(alpha, tint) ==
    BoxMesh(Vec(-1 - ShellOffset, -1 - ShellOffset, -1 - ShellOffset),
            Vec(1 + ShellOffset, 1 + ShellOffset, 1 + ShellOffset),
            TRUE, alpha, tint)

\* A box that shares the face plane x = 1 with the inner box.
NeighbourBox(alpha, tint) ==
    BoxMesh(Vec(1, -1, -1), Vec(3, 1, 1), FALSE, alpha, tint)

EmptyMesh == [InnerBox(AllAlpha(1), 9, FALSE) EXCEPT !.empty = TRUE]

BothOrders(a, b) == {<<a, b>>, <<b, a>>}

\* An opaque inner box inside an outer layer shell, in both list orders.
LayeredScenes ==
    UNION {BothOrders(InnerBox(AllAlpha(1), 1, FALSE), ShellBox(p, 2)) :
              p \in AlphaPatterns}

SingleMeshScenes ==
    {<<InnerBox(p, 1, outer)>> : p \in AlphaPatterns, outer \in BOOLEAN}

OtherScenes ==
    {<< >>, <<EmptyMesh>>}
    \cup BothOrders(EmptyMesh, InnerBox(AllAlpha(1), 1, FALSE))
    \cup BothOrders(InnerBox(AllAlpha(1), 1, FALSE), NeighbourBox(AllAlpha(1), 2))
    \cup BothOrders(InnerBox(AllAlpha(1), 1, FALSE), InnerBox(AllAlpha(1), 2, FALSE))

MeshLists == LayeredScenes \cup SingleMeshScenes \cup OtherScenes

Directions == [Axes -> {-1, 0, 1}]

Rays ==
    {[origin |-> Vec(x, y, z), direction |-> d] :
        x \in (-MaxOrigin)..MaxOrigin, y \in (-MaxOrigin)..MaxOrigin,
        z \in {0, MaxOrigin}, d \in Directions}

IxIdle ==
    /\ ixRay = [origin |-> Vec(0, 0, 0), direction |-> Vec(0, 0, 0)]
    /\ ixScene = << >>
    /\ ixPc = "ready"
    /\ ixResult = NoHit
    /\ ixMeshHits = << >>

IxInit ==
    /\ ixRay \in Rays
    /\ ixScene \in MeshLists
    /\ ixPc = "ready"
    /\ ixResult = NoHit
    /\ ixMeshHits = << >>

\* HitResult r = intersectScene(ray, scene); ixMeshHits keeps what the loop's
\* intersectMesh calls returned.
IxCall ==
    /\ ixPc = "ready"
    /\ ixResult' = IntersectScene(ixRay, ixScene)
    /\ ixMeshHits' = [k \in DOMAIN ixScene |-> IntersectMesh(ixRay, ixScene[k])]
    /\ ixPc' = "returned"
    /\ UNCHANGED <<ixRay, ixScene, gtVars, rVars, trVars, mVars, shVars, bsVars, lastVars>>

IxNext == IxCall

ShIdle ==
    /\ shArgs = [point |-> Vec(0, 0, 0), normal |-> Vec(0, 0, 0),
                 lightPos |-> Vec(0, 0, 0), scene |-> << >>]
    /\ shPc = "ready"
    /\ shResult = FALSE
    /\ shTrace = << >>

BsIdle ==
    /\ bsSkin = << >>
    /\ bsPose = << >>
    /\ bsPc = "ready"
    /\ bsMeshes = << >>

CcIdle ==
    /\ ccYaw = Fin(0)
    /\ ccPitch = Fin(0)
    /\ ccSens = Fin(1)
    /\ ccLast = "none"

DefaultScene == [skin |-> 0, pose |-> 0, light |-> 0, camera |-> 0]

AllControls(enabled) ==
    [fetchBtn |-> enabled, renderBtn |-> enabled, others |-> enabled]

MwIdle ==
    /\ mwPc = "none"
    /\ mwScene = DefaultScene
    /\ mwBounce = 0
    /\ mwControls = AllControls(TRUE)
    /\ mwPending = 0
    /\ mwThreads = << >>
    /\ mwHandle = 0
    /\ mwFinished = << >>
    /\ mwRendering = FALSE

EarlierIdle == RIdle /\ GtIdle /\ TrIdle /\ MIdle /\ IxIdle /\ ShIdle /\ BsIdle

SfIdle ==
    /\ sfUsername = ""
    /\ sfChains = << >>
    /\ sfSignals = << >>

SsIdle ==
    /\ ssArgs = << >>
    /\ ssPc = "none"
    /\ ssVisibility = 0

BfIdle ==
    /\ bfTriangles = << >>
    /\ bfPc = "none"
    /\ bfRay = [origin |-> Vec(0, 0, 0), direction |-> Vec(0, 0, 0)]
    /\ bfHit = NoHit

CrIdle ==
    /\ crPc = << >>
    /\ crNextTile = << >>
    /\ crWorker = << >>
    /\ crTile = << >>
    /\ crMutex = << >>
    /\ crErrors = << >>
    /\ crModifying = {}
    /\ crOverlapped = {}
    /\ crRecorded = {}

LastIdle == CcIdle /\ MwIdle /\ SfIdle /\ SsIdle /\ BfIdle /\ CrIdle

LaterIdle == IxIdle /\ ShIdle /\ BsIdle /\ LastIdle

Init == RInit /\ GtIdle /\ TrIdle /\ MIdle /\ LaterIdle

Spec == Init /\ [][Next]_vars

\* The calling thread and the workers are OS threads: while one of them can
\* take a step, one of them does.
\* Sampling does not touch the control flow of render: termination is
\* explored with one sample per pixel.
FairInit == Init /\ config.samplesPerPixel = 1 /\ errors_ = << >>

FairSpec == FairInit /\ [][Next]_vars /\ WF_vars(Next)

TilesInit == GtInit /\ RIdle /\ TrIdle /\ MIdle /\ LaterIdle

TilesSpec == TilesInit /\ [][GtNext]_vars

TraceInit == TrInit /\ RIdle /\ GtIdle /\ MIdle /\ LaterIdle

TraceSpec == TraceInit /\ [][TrNext]_vars

MeshInit == MInit /\ RIdle /\ GtIdle /\ TrIdle /\ LaterIdle

MeshSpec == MeshInit /\ [][MNext]_vars

IntersectInit ==
    IxInit /\ RIdle /\ GtIdle /\ TrIdle /\ MIdle /\ ShIdle /\ BsIdle /\ LastIdle

IntersectSpec == IntersectInit /\ [][IxNext]_vars

\* ------------------------------------------------------------- isInShadow
\* Positions are on the integer grid of the intersection model, with the grid
\* step a third of SHADOW_EPSILON, so that a box can lie between a surface
\* point and its offset origin. The light is on one of the three axes through
\* the offset origin: toLight has one non-zero component, its length is the
\* absolute value of that component and toLight / distToLight is a unit vector
\* of the grid.
SHADOW_EPSILON == 3

MaxLight == 4       \* light positions have coordinates in -MaxLight..MaxLight

VecAdd(a, b) == [i \in Axes |-> a[i] + b[i]]

VecSub(a, b) == [i \in Axes |-> a[i] - b[i]]

VecScale(a, s) == [i \in Axes |-> a[i] * s]

AbsInt(x) == IF x < 0 THEN -x ELSE x

AxisAligned(v) == \A i, j \in Axes : (v[i] # 0 /\ v[j] # 0) => i = j

\* Vec3::length of a vector with at most one non-zero component.
VecLength(v) == AbsInt(v[0]) + AbsInt(v[1]) + AbsInt(v[2])

\* Vec3::operator/ by the length of an axis-aligned vector.
VecDiv(v, len) == [i \in Axes |-> IF v[i] > 0 THEN 1 ELSE IF v[i] < 0 THEN -1 ELSE 0]

\* Vec3 origin = point + normal * SHADOW_EPSILON
ShadowOrigin(point, normal) == VecAdd(point, VecScale(normal, SHADOW_EPSILON))

\* if (distToLight < 1e-6f): of the lengths of the grid only 0 is that small.
LightAtOrigin(distToLight) == distToLight = 0

ShadowAtAnyDistance(hit, distToLight) == hit.hit

\* return hit.hit && hit.t < distToLight
ShadowCondition(hit, distToLight) == hit.hit /\ hit.t < distToLight

\* The locals of isInShadow.
ShadowLocals(args) ==
    LET origin == ShadowOrigin(args.point, args.normal)
        toLight == VecSub(args.lightPos, origin)
        distToLight == VecLength(toLight)
        dir == VecDiv(toLight, distToLight)
        shadowRay == [origin |-> origin, direction |-> dir]
    IN  [origin |-> origin, distToLight |-> distToLight, shadowRay |-> shadowRay,
         hit |-> IF LightAtOrigin(distToLight) THEN NoHit
                 ELSE IntersectScene(shadowRay, args.scene)]

IsInShadow(args) ==
    LET l == ShadowLocals(args)
    IN  IF LightAtOrigin(l.distToLight) THEN FALSE
        ELSE ShadowCondition(l.hit, l.distToLight)

\* Unit normals along the axes, and the zero vector.
Normals == {n \in [Axes -> {-1, 0, 1}] : AxisAligned(n)}

ShadedPoints == [Axes -> {-1, 0, 1}]

LightsOf(point, normal) ==
    {l \in [Axes -> -MaxLight..MaxLight] :
        AxisAligned(VecSub(l, ShadowOrigin(point, normal)))}

\* A thin opaque plate just above the plane z = 0, an opaque plate farther
\* up, the inner box opaque or fully transparent, alone or in a transparent
\* shell.
ShadowScenes ==
    { << >>,
      <<BoxMesh(Vec(-2, -2, 1), Vec(2, 2, 2), FALSE, AllAlpha(1), 1)>>,
      <<BoxMesh(Vec(-2, -2, 3), Vec(2, 2, 4), FALSE, AllAlpha(1), 1)>>,
      <<InnerBox(AllAlpha(1), 1, FALSE)>>,
      <<InnerBox(AllAlpha(0), 1, FALSE)>>,
      <<ShellBox(AllAlpha(0), 2), InnerBox(AllAlpha(1), 1, FALSE)>> }

ShInit ==
    /\ \E point \in ShadedPoints, normal \in Normals, scene \in ShadowScenes :
          \E lightPos \in LightsOf(point, normal) :
              shArgs = [point |-> point, normal |-> normal,
                        lightPos |-> lightPos, scene |-> scene]
    /\ shPc = "ready"
    /\ shResult = FALSE
    /\ shTrace = << >>

ShCall ==
    /\ shPc = "ready"
    /\ shResult' = IsInShadow(shArgs)
    /\ shTrace' = <<ShadowLocals(shArgs)>>
    /\ shPc' = "returned"
    /\ UNCHANGED <<shArgs, gtVars, rVars, trVars, mVars, ixVars, bsVars, lastVars>>

ShNext == ShCall

ShadowInit ==
    ShInit /\ RIdle /\ GtIdle /\ TrIdle /\ MIdle /\ IxIdle /\ BsIdle /\ LastIdle

ShadowSpec == ShadowInit /\ [][ShNext]_vars

\* ------------------------------------------------------------- buildScene
\* A texture region is the sequence of its pixels' alphas (0 transparent,
\* 1 partly transparent, 2 opaque), a BodyPartTexture its six regions. Angles
\* are in hundredths of a degree.
MaxPixels == 2      \* a region has at most MaxPixels pixels

\* Regions with at most one pixel that is not transparent, and the region
\* without pixels.
Regions ==
    {<< >>} \cup
    {[i \in 1..n |-> IF i = j THEN a ELSE 0] :
        n \in 1..MaxPixels, j \in 0..MaxPixels, a \in {1, 2}}

RegionFirstPixelTransparent(region) == region = << >> \/ region[1] = 0

\* isRegionFullyTransparent: no pixel with a != 0.0f
IsRegionFullyTransparent(region) == \A i \in DOMAIN region : ~(region[i] # 0)

\* MeshBuilder::isFullyTransparent: all six regions
IsFullyTransparent(tex) == \A f \in Faces : IsRegionFullyTransparent(tex[f])

\* Outer textures: transparent everywhere, or with one region of Regions.
OuterTextures ==
    {[f \in Faces |-> IF f = g THEN r ELSE <<0>>] : g \in Faces, r \in Regions}

InnerTextures == {[f \in Faces |-> <<2>>], [f \in Faces |-> <<0>>]}

\* rotX, rotZ around the threshold of hasPose.
PartPoses ==
    {[rotX |-> 0, rotZ |-> 0], [rotX |-> 1, rotZ |-> 0], [rotX |-> 0, rotZ |-> -2]}

\* The first and the third entry of parts[].
PartDefs ==
    <<[name |-> "head", position |-> Vec(0, 28, 0)],
      [name |-> "rightArm", position |-> Vec(-6, 18, 0)]>>

PartNames == {PartDefs[p].name : p \in DOMAIN PartDefs}

\* bool hasPose = fabs(rotX) > 0.01f || fabs(rotZ) > 0.01f
HasPose(pose) == AbsInt(pose.rotX) > 1 \/ AbsInt(pose.rotZ) > 1

\* buildBox / buildBoxWithPose: the mesh of one layer of a part; offset in
\* tenths.
LayerMesh(part, tex, offset, pose) ==
    [part |-> part.name, tex |-> tex, offset |-> offset,
     posed |-> HasPose(pose), position |-> part.position]

\* The body of the loop over parts[] for one part.
PartMeshes(part, skin, pose) ==
    <<LayerMesh(part, skin.inner, 0, pose)>> \o
    (IF ~IsFullyTransparent(skin.outer)
     THEN <<LayerMesh(part, skin.outer, 5, pose)>>
     ELSE << >>)

RECURSIVE PartsLoop(_, _, _)
PartsLoop(p, skin, pose) ==
    IF p > Len(PartDefs) THEN << >>
    ELSE PartMeshes(PartDefs[p], skin[PartDefs[p].name], pose[PartDefs[p].name])
            \o PartsLoop(p + 1, skin, pose)

\* The rotation of the whole model by 180 degrees around Y.
RotateY180(mesh) ==
    [mesh EXCEPT !.position = Vec(-mesh.position[0], mesh.position[1],
                                  -mesh.position[2])]

BuildScene(skin, pose) ==
    LET built == PartsLoop(1, skin, pose)
    IN  [k \in DOMAIN built |-> RotateY180(built[k])]

BsInit ==
    /\ bsSkin \in [PartNames -> [inner : InnerTextures, outer : OuterTextures]]
    /\ bsPose \in [PartNames -> PartPoses]
    /\ bsPc = "ready"
    /\ bsMeshes = << >>

BsCall ==
    /\ bsPc = "ready"
    /\ bsMeshes' = BuildScene(bsSkin, bsPose)
    /\ bsPc' = "returned"
    /\ UNCHANGED <<bsSkin, bsPose, gtVars, rVars, trVars, mVars, ixVars, shVars, lastVars>>

BsNext == BsCall

BuildSceneInit ==
    BsInit /\ RIdle /\ GtIdle /\ TrIdle /\ MIdle /\ IxIdle /\ ShIdle /\ LastIdle

BuildSceneSpec == BuildSceneInit /\ [][BsNext]_vars

\* ------------------------------------------------------- CameraController
\* Angles are in degrees. The sensitivity is a multiple of the default one,
\* a mouse delta a multiple of the travel that turns the camera by one degree
\* at the default sensitivity.
PITCH_LIMIT == 89

MaxDelta == 2       \* finite mouse deltas are in -MaxDelta..MaxDelta

NonFinite == {NaN, PosInf, NegInf}

DeltasY == {Fin(v) : v \in -MaxDelta..MaxDelta} \cup {Fin(FloatMax)} \cup NonFinite

DeltasX == {Fin(0), PosInf, NaN}

Sensitivities == {Fin(0), Fin(1), Fin(-1), Fin(30), Fin(FloatMax), PosInf, NaN}

PitchArguments ==
    {Fin(0), Fin(PITCH_LIMIT), Fin(-PITCH_LIMIT), Fin(PITCH_LIMIT + 1),
     Fin(-FloatMax)} \cup NonFinite

\* CameraController::CameraController and the default member initialisers.
CcInit ==
    /\ ccYaw = Fin(0)
    /\ ccPitch = Fin(0)
    /\ ccSens = Fin(1)
    /\ ccLast = "constructor"

SetYawPitch ==
    /\ ccLast # "none"
    /\ \E yaw \in DeltasX, pitch \in PitchArguments :
          /\ ccYaw' = yaw
          /\ ccPitch' = pitch
    /\ ccLast' = "setYawPitch"
    /\ UNCHANGED <<ccSens, exceptCc>>

SetMouseSensitivity ==
    /\ ccLast # "none"
    /\ \E sensitivity \in Sensitivities : ccSens' = sensitivity
    /\ ccLast' = "setMouseSensitivity"
    /\ UNCHANGED <<ccYaw, ccPitch, exceptCc>>

HandleMouseMove ==
    /\ ccLast # "none"
    /\ \E deltaX \in DeltasX, deltaY \in DeltasY :
          /\ ccYaw' = FAdd(ccYaw, FMul(deltaX, ccSens))
          /\ ccPitch' = StdClamp(FSub(ccPitch, FMul(deltaY, ccSens)),
                                 Fin(-PITCH_LIMIT), Fin(PITCH_LIMIT))
    /\ ccLast' = "handleMouseMove"
    /\ UNCHANGED <<ccSens, exceptCc>>

CcNext == SetYawPitch \/ SetMouseSensitivity \/ HandleMouseMove

CameraInit == CcInit /\ EarlierIdle /\ MwIdle /\ SfIdle /\ SsIdle /\ BfIdle /\ CrIdle

CameraSpec == CameraInit /\ [][CcNext]_vars

\* ------------------------------------------------------------- MainWindow
\* The GUI thread runs one handler at a time to its end; a handler of a
\* widget runs only while the widget is enabled. The values of a skin, a pose,
\* a light, a camera and the bounce count are small numbers. The progress bar
\* and the message boxes are left out.
MaxRenders == 2     \* renders started by onRenderExport
MaxFetch == 1       \* skin fetches in flight

Choices == {0, 1}

\* rebuildScene: buildScene or buildDefaultScene, then the light of the
\* sliders; the camera is the one buildScene sets.
RebuildScene(scene, skin, pose) ==
    [skin |-> skin, pose |-> pose, light |-> scene.light, camera |-> 0]

\* loadSkinFile: the parse fails (skin = 0 here) or gives currentSkin_.
LoadSkinFile(scene, skin) ==
    IF skin = 0 THEN scene ELSE RebuildScene(scene, skin, scene.pose)

SceneReadShared(captured, windowScene) == windowScene

\* What TileRenderer::render reads through its const Scene&: the sceneCopy
\* the lambda captured by value.
SceneRead(captured, windowScene) == captured

JoinSkipped(threads, handle) == TRUE

\* renderThread_.join() returns: once the thread has ended.
JoinReturns(threads, handle) == threads[handle].state = "exited"

\* if (renderThread_.joinable()) renderThread_.join();
JoinIfJoinable(threads, handle) == handle # 0 => JoinReturns(threads, handle)

ExitedThread ==
    [state |-> "exited", sceneCopy |-> DefaultScene, config |-> [maxBounces |-> 0],
     sceneAtStart |-> DefaultScene, configAtStart |-> [maxBounces |-> 0],
     reads |-> {}]

LiveThreads(threads) ==
    {k \in DOMAIN threads : threads[k].state \in {"running", "posted"}}

\* MainWindow::MainWindow, setupUi
MwInit ==
    /\ mwPc = "alive"
    /\ mwScene = DefaultScene
    /\ mwBounce = 0
    /\ mwControls = AllControls(TRUE)
    /\ mwPending = 0
    /\ mwThreads = << >>
    /\ mwHandle = 0
    /\ mwFinished = << >>
    /\ mwRendering = FALSE

\* fetchBtn_ clicked, or returnPressed of usernameEdit_.
OnFetchByUsername ==
    /\ mwPc = "alive"
    /\ mwControls.fetchBtn \/ mwControls.others
    /\ mwPending < MaxFetch
    /\ mwControls' = [mwControls EXCEPT !.fetchBtn = FALSE]
    /\ mwPending' = mwPending + 1
    /\ UNCHANGED <<mwPc, mwScene, mwBounce, mwThreads, mwHandle, mwFinished,
                   mwRendering, exceptMw>>

OnSkinFetched ==
    /\ mwPc = "alive"
    /\ mwPending > 0
    /\ mwPending' = mwPending - 1
    /\ mwControls' = [mwControls EXCEPT !.fetchBtn = TRUE]
    /\ \E skin \in 0..2 : mwScene' = LoadSkinFile(mwScene, skin)
    /\ UNCHANGED <<mwPc, mwBounce, mwThreads, mwHandle, mwFinished, mwRendering,
                   exceptMw>>

OnSkinFetchError ==
    /\ mwPc = "alive"
    /\ mwPending > 0
    /\ mwPending' = mwPending - 1
    /\ mwControls' = [mwControls EXCEPT !.fetchBtn = TRUE]
    /\ UNCHANGED <<mwPc, mwScene, mwBounce, mwThreads, mwHandle, mwFinished,
                   mwRendering, exceptMw>>

OnImportSkin ==
    /\ mwPc = "alive"
    /\ mwControls.others
    /\ \E skin \in 0..2 : mwScene' = LoadSkinFile(mwScene, skin)
    /\ UNCHANGED <<mwPc, mwBounce, mwControls, mwPending, mwThreads, mwHandle,
                   mwFinished, mwRendering, exceptMw>>

OnPoseChanged ==
    /\ mwPc = "alive"
    /\ mwControls.others
    /\ \E pose \in Choices : mwScene' = RebuildScene(mwScene, mwScene.skin, pose)
    /\ UNCHANGED <<mwPc, mwBounce, mwControls, mwPending, mwThreads, mwHandle,
                   mwFinished, mwRendering, exceptMw>>

OnLightPosChanged ==
    /\ mwPc = "alive"
    /\ mwControls.others
    /\ \E light \in Choices : mwScene' = [mwScene EXCEPT !.light = light]
    /\ UNCHANGED <<mwPc, mwBounce, mwControls, mwPending, mwThreads, mwHandle,
                   mwFinished, mwRendering, exceptMw>>

OnBounceCountChanged ==
    /\ mwPc = "alive"
    /\ mwControls.others
    /\ \E value \in Choices : mwBounce' = value
    /\ UNCHANGED <<mwPc, mwScene, mwControls, mwPending, mwThreads, mwHandle,
                   mwFinished, mwRendering, exceptMw>>

\* onRenderExport past the file dialog (an empty path returns before any
\* change): the controls, the config, scene_.camera, the copy, the join of the
\* earlier thread and the new thread.
OnRenderExport ==
    /\ mwPc = "alive"
    /\ mwControls.renderBtn
    /\ Len(mwThreads) < MaxRenders
    /\ JoinIfJoinable(mwThreads, mwHandle)
    /\ mwControls' = AllControls(FALSE)
    /\ \E camera \in Choices :
          LET scene == [mwScene EXCEPT !.camera = camera]
              cfg == [maxBounces |-> mwBounce]
          IN  /\ mwScene' = scene
              /\ mwThreads' = Append(mwThreads,
                     [state |-> "running", sceneCopy |-> scene, config |-> cfg,
                      sceneAtStart |-> scene, configAtStart |-> cfg,
                      reads |-> {}])
    /\ mwHandle' = Len(mwThreads) + 1
    /\ mwRendering' = TRUE
    /\ UNCHANGED <<mwPc, mwBounce, mwPending, mwFinished, exceptMw>>

\* The render thread inside TileRenderer::render: a read of the scene and of
\* the config.
RenderReads(k) ==
    /\ k \in DOMAIN mwThreads
    /\ mwThreads[k].state = "running"
    /\ mwThreads' = [mwThreads EXCEPT ![k].reads =
          @ \cup {[scene |-> SceneRead(mwThreads[k].sceneCopy, mwScene),
                   config |-> mwThreads[k].config]}]
    /\ UNCHANGED <<mwPc, mwScene, mwBounce, mwControls, mwPending, mwHandle,
                   mwFinished, mwRendering, exceptMw>>

\* render returns, writePNG, the queued invocation of onRenderFinished.
RenderPostsFinished(k) ==
    /\ k \in DOMAIN mwThreads
    /\ mwThreads[k].state = "running"
    /\ mwThreads' = [mwThreads EXCEPT ![k].state = "posted"]
    /\ mwFinished' = Append(mwFinished, k)
    /\ UNCHANGED <<mwPc, mwScene, mwBounce, mwControls, mwPending, mwHandle,
                   mwRendering, exceptMw>>

\* The thread's function returns: the lambda and its captures are gone.
RenderThreadEnds(k) ==
    /\ k \in DOMAIN mwThreads
    /\ mwThreads[k].state = "posted"
    /\ mwThreads' = [mwThreads EXCEPT ![k] = ExitedThread]
    /\ UNCHANGED <<mwPc, mwScene, mwBounce, mwControls, mwPending, mwHandle,
                   mwFinished, mwRendering, exceptMw>>

OnRenderFinished ==
    /\ mwPc = "alive"
    /\ mwFinished # << >>
    /\ mwFinished' = Tail(mwFinished)
    /\ mwControls' = AllControls(TRUE)
    /\ mwRendering' = FALSE
    /\ UNCHANGED <<mwPc, mwScene, mwBounce, mwPending, mwThreads, mwHandle,
                   exceptMw>>

\* MainWindow::~MainWindow
DestroyWindow ==
    /\ mwPc = "alive"
    /\ JoinIfJoinable(mwThreads, mwHandle)
    /\ mwPc' = "destroyed"
    /\ mwHandle' = 0
    /\ UNCHANGED <<mwScene, mwBounce, mwControls, mwPending, mwThreads,
                   mwFinished, mwRendering, exceptMw>>

MwNext ==
    \/ OnFetchByUsername
    \/ OnSkinFetched
    \/ OnSkinFetchError
    \/ OnImportSkin
    \/ OnPoseChanged
    \/ OnLightPosChanged
    \/ OnBounceCountChanged
    \/ OnRenderExport
    \/ \E k \in 1..MaxRenders : RenderReads(k)
    \/ \E k \in 1..MaxRenders : RenderPostsFinished(k)
    \/ \E k \in 1..MaxRenders : RenderThreadEnds(k)
    \/ OnRenderFinished
    \/ DestroyWindow

WindowInit == MwInit /\ EarlierIdle /\ CcIdle /\ SfIdle /\ SsIdle /\ BfIdle /\ CrIdle

WindowSpec == WindowInit /\ [][MwNext]_vars

\* ------------------------------------------------------------- SkinFetcher
\* A reply chain is the sequence of the three requests that one fetch call
\* starts: UUID, profile, skin. The data of its replies belongs to the
\* username that was passed to that call.
MaxFetchCalls == 2  \* calls of fetch

Usernames == {"alex", "steve"}

\* dir + "/mcskin_" + username_ + ".png"
SkinFileOf(username) == <<"mcskin_", username, ".png">>

SfInit ==
    /\ sfUsername = ""
    /\ sfChains = << >>
    /\ sfSignals = << >>

\* SkinFetcher::fetch
Fetch ==
    /\ Len(sfChains) < MaxFetchCalls
    /\ \E username \in Usernames :
          /\ sfUsername' = username
          /\ sfChains' = Append(sfChains, [user |-> username, step |-> "uuid"])
    /\ UNCHANGED <<sfSignals, exceptSf>>

ErrorSignal == [signal |-> "error", file |-> << >>, dataOf |-> ""]

\* onUuidReply: an error (emitted twice for the status 204 or 404) or the
\* request of the profile.
OnUuidReply(c) ==
    /\ c \in DOMAIN sfChains
    /\ sfChains[c].step = "uuid"
    /\ \E outcome \in {"notFound", "error", "ok"} :
          /\ sfChains' = [sfChains EXCEPT ![c].step =
                             IF outcome = "ok" THEN "profile" ELSE "done"]
          /\ sfSignals' = IF outcome = "ok" THEN sfSignals
                          ELSE IF outcome = "notFound"
                          THEN sfSignals \o <<ErrorSignal, ErrorSignal>>
                          ELSE Append(sfSignals, ErrorSignal)
    /\ UNCHANGED <<sfUsername, exceptSf>>

\* onProfileReply: an error or the request of the skin.
OnProfileReply(c) ==
    /\ c \in DOMAIN sfChains
    /\ sfChains[c].step = "profile"
    /\ \E ok \in BOOLEAN :
          /\ sfChains' = [sfChains EXCEPT ![c].step = IF ok THEN "skin" ELSE "done"]
          /\ sfSignals' = IF ok THEN sfSignals ELSE Append(sfSignals, ErrorSignal)
    /\ UNCHANGED <<sfUsername, exceptSf>>

\* onSkinReply: an error, or the data written to the file named after
\* username_ and finished(filePath).
OnSkinReply(c) ==
    /\ c \in DOMAIN sfChains
    /\ sfChains[c].step = "skin"
    /\ sfChains' = [sfChains EXCEPT ![c].step = "done"]
    /\ \E ok \in BOOLEAN :
          sfSignals' = Append(sfSignals,
              IF ok THEN [signal |-> "finished", file |-> SkinFileOf(sfUsername),
                          dataOf |-> sfChains[c].user]
              ELSE ErrorSignal)
    /\ UNCHANGED <<sfUsername, exceptSf>>

SfNext ==
    \/ Fetch
    \/ \E c \in 1..MaxFetchCalls : OnUuidReply(c)
    \/ \E c \in 1..MaxFetchCalls : OnProfileReply(c)
    \/ \E c \in 1..MaxFetchCalls : OnSkinReply(c)

FetcherInit == SfInit /\ EarlierIdle /\ CcIdle /\ MwIdle /\ SsIdle /\ BfIdle /\ CrIdle

FetcherSpec == FetcherInit /\ [][SfNext]_vars

\* --------------------------------------------- traceRay: the shadow factor
\* shade scales the diffuse and specular terms by a visibility factor, in
\* hundredths here. The light is a disk: position 0 is light.position, the
\* others lie off the centre; the scene occludes some of them from the hit
\* point. picks are the positions the generator of computeSoftShadow draws.
MaxShadowSamples == 3  \* config.shadowSamples ranges over 0..MaxShadowSamples
MaxDisk == 2           \* positions on the light's disk besides its centre

DiskPositions == 0..MaxDisk

\* light.radius, 0 standing for a radius below 1e-4
LightRadii == {0, 3}

\* isInShadow(point, normal, light.position, scene) ? 0.0f : 1.0f
HardVisibility(occluded) == IF 0 \in occluded THEN 0 ELSE 100

\* the sampling loop of computeSoftShadow: lit counts the samples that
\* are not in shadow
RECURSIVE SoftShadowLoop(_, _, _, _, _)
SoftShadowLoop(i, samples, occluded, picks, lit) ==
    IF i >= samples THEN lit
    ELSE SoftShadowLoop(i + 1, samples, occluded, picks,
                        IF picks[i + 1] \in occluded THEN lit ELSE lit + 1)

ComputeSoftShadow(samples, radius, occluded, picks) ==
    IF samples <= 1 \/ radius = 0 THEN HardVisibility(occluded)
    ELSE (SoftShadowLoop(0, samples, occluded, picks, 0) * 100) \div samples

\* float shadowFactor = -1.0f
DefaultShadowFactor == -100

\* shade: a negative shadowFactor falls back to the hard shadow test
ShadeVisibility(shadowFactor, occluded) ==
    IF shadowFactor < 0 THEN HardVisibility(occluded) ELSE shadowFactor

\* traceRay calls shade(hit, viewDir, scene.light, scene, params): the
\* sixth parameter takes its default, whatever the config says
TraceRayShadowFactor(args) == DefaultShadowFactor

ShadeArguments ==
    [softShadows : BOOLEAN,
     shadowSamples : 0..MaxShadowSamples,
     radius : LightRadii,
     occluded : SUBSET DiskPositions,
     picks : [1..MaxShadowSamples -> DiskPositions]]

SsInit ==
    /\ ssArgs = << >>
    /\ ssPc = "none"
    /\ ssVisibility = 0

\* traceRay, for a ray that hit: the call of shade
TraceRayShade ==
    /\ ssPc = "none"
    /\ \E args \in ShadeArguments :
          /\ ssArgs' = args
          /\ ssVisibility' = ShadeVisibility(TraceRayShadowFactor(args), args.occluded)
    /\ ssPc' = "shaded"
    /\ UNCHANGED exceptSs

SsNext == TraceRayShade

ShadeInit == SsInit /\ EarlierIdle /\ CcIdle /\ MwIdle /\ SfIdle /\ BfIdle /\ CrIdle

ShadeSpec == ShadeInit /\ [][SsNext]_vars

\* ------------------------------------------- buildBox, the faces of a box
\* The triangles of a box with their vertices, normals and textures. A
\* texture pointer is the index into ownedTextures: 0 front, 1 back, 2 left,
\* 3 right, 4 top, 5 bottom of the BodyPartTexture. Sizes are halved.
MaxReach == 3       \* ray origins have coordinates in -MaxReach..MaxReach

TextureNames ==
    (0 :> "front") @@ (1 :> "back") @@ (2 :> "left") @@ (3 :> "right")
    @@ (4 :> "top") @@ (5 :> "bottom")

\* addFace: the triangles (a, b, c) and (a, c, d)
AddFace(a, b, c, d, normal, texRegion) ==
    <<[v0 |-> a, v1 |-> b, v2 |-> c, normal |-> normal, texture |-> texRegion],
      [v0 |-> a, v1 |-> c, v2 |-> d, normal |-> normal, texture |-> texRegion]>>

\* buildBox with offset 0: hw, hh, hd are half[0], half[1], half[2]
BuildBoxTriangles(position, half) ==
    LET Corner(sx, sy, sz) == Vec(position[0] + sx * half[0],
                                  position[1] + sy * half[1],
                                  position[2] + sz * half[2])
        v000 == Corner(-1, -1, -1)
        v100 == Corner(1, -1, -1)
        v010 == Corner(-1, 1, -1)
        v110 == Corner(1, 1, -1)
        v001 == Corner(-1, -1, 1)
        v101 == Corner(1, -1, 1)
        v011 == Corner(-1, 1, 1)
        v111 == Corner(1, 1, 1)
    IN  AddFace(v010, v110, v100, v000, Vec(0, 0, -1), 0)
        \o AddFace(v111, v011, v001, v101, Vec(0, 0, 1), 1)
        \o AddFace(v110, v111, v101, v100, Vec(1, 0, 0), 2)
        \o AddFace(v011, v010, v000, v001, Vec(-1, 0, 0), 3)
        \o AddFace(v011, v111, v110, v010, Vec(0, 1, 0), 4)
        \o AddFace(v000, v100, v101, v001, Vec(0, -1, 0), 5)

\* buildScene's rotation by 180 degrees around Y of one triangle
NegateXZ(v) == Vec(-v[0], v[1], -v[2])

RotateTriangleY180(tri) ==
    [tri EXCEPT !.v0 = NegateXZ(tri.v0), !.v1 = NegateXZ(tri.v1),
                !.v2 = NegateXZ(tri.v2), !.normal = NegateXZ(tri.normal)]

\* buildScene for one part without pose: buildBox, then the rotation
BuildSceneBox(position, half) ==
    LET box == BuildBoxTriangles(position, half)
    IN  [k \in DOMAIN box |-> RotateTriangleY180(box[k])]

\* computeAABB: the extremes of the triangles' vertices
ComputeAABB(triangles) ==
    LET Coords(i) == UNION {{triangles[k].v0[i], triangles[k].v1[i],
                             triangles[k].v2[i]} : k \in DOMAIN triangles}
        Least(S) == CHOOSE x \in S : \A y \in S : x <= y
        Greatest(S) == CHOOSE x \in S : \A y \in S : x >= y
    IN  [boxMin |-> [i \in Axes |-> Least(Coords(i))],
         boxMax |-> [i \in Axes |-> Greatest(Coords(i))]]

\* determineFace's texture: mesh.triangles[faceIndex * 2].texture
FaceTexture(triangles, faceIndex) == triangles[faceIndex * 2 + 1].texture

\* Each of the six textures is one pixel whose alpha, texture index + 1,
\* tells which texture a sample came from.
TextureAlpha(texRegion) == texRegion + 1

\* The mesh as intersectMesh reads it
MeshOfTriangles(triangles) ==
    LET box == ComputeAABB(triangles)
    IN  BoxMesh(box.boxMin, box.boxMax, FALSE,
                [f \in Faces |-> TextureAlpha(FaceTexture(triangles, f))], 1)

BoxPositions == {Vec(0, 0, 0), Vec(1, 0, -1)}

BoxHalves == {Vec(1, 1, 1), Vec(1, 2, 1)}

FaceRays ==
    {[origin |-> o, direction |-> d] :
        o \in [Axes -> (-MaxReach)..MaxReach], d \in Directions}

BfInit ==
    /\ bfTriangles = << >>
    /\ bfPc = "none"
    /\ bfRay = [origin |-> Vec(0, 0, 0), direction |-> Vec(0, 0, 0)]
    /\ bfHit = NoHit

\* MeshBuilder::buildScene, one part's inner box
BfBuildScene ==
    /\ bfPc = "none"
    /\ \E position \in BoxPositions, half \in BoxHalves :
          bfTriangles' = BuildSceneBox(position, half)
    /\ bfPc' = "built"
    /\ UNCHANGED <<bfRay, bfHit, exceptBf>>

\* intersectMesh(ray, mesh)
BfIntersect ==
    /\ bfPc = "built"
    /\ \E ray \in FaceRays :
          /\ bfRay' = ray
          /\ bfHit' = IntersectMesh(ray, MeshOfTriangles(bfTriangles))
    /\ bfPc' = "hit"
    /\ UNCHANGED <<bfTriangles, exceptBf>>

BfNext == BfBuildScene \/ BfIntersect

BoxFaceInit == BfInit /\ EarlierIdle /\ CcIdle /\ MwIdle /\ SfIdle /\ SsIdle /\ CrIdle

BoxFaceSpec == BoxFaceInit /\ [][BfNext]_vars

\* -------------------------------------- render, two calls at the same time
\* errors_ is a static member, errorMutex a local of each call. A thread is
\* <<call, worker>>, worker 0 being the thread that called render. clear and
\* push_back take two steps each, so that modifications can be seen to
\* overlap; a modification that overlapped another one is a data race, whose
\* outcome is any of: it took effect, it did not.
CallTiles == 1      \* tiles of a call

Calls == {1, 2}

\* the worker threads of a call
CrWorkers == {1, 2}

\* the threads inside a modification when thread t begins one
BeginModify(modifying, overlapped, t) ==
    IF modifying = {} THEN overlapped ELSE overlapped \cup modifying \cup {t}

\* the outcomes of a modification that gives `after' when it is alone
ModifyOutcomes(raced, before, after) ==
    IF raced THEN {before, after} ELSE {after}

CrInit ==
    /\ crPc = [c \in Calls |-> "idle"]
    /\ crNextTile = [c \in Calls |-> 0]
    /\ crWorker = [c \in Calls |-> [w \in CrWorkers |-> "claim"]]
    /\ crTile = [c \in Calls |-> [w \in CrWorkers |-> 0]]
    /\ crMutex = [c \in Calls |-> 0]
    /\ crErrors = << >>
    /\ crModifying = {}
    /\ crOverlapped = {}
    /\ crRecorded = {}

\* render: errors_.clear() begins
CrBeginClear(c) ==
    /\ crPc[c] = "idle"
    /\ crPc' = [crPc EXCEPT ![c] = "clearing"]
    /\ crOverlapped' = BeginModify(crModifying, crOverlapped, <<c, 0>>)
    /\ crModifying' = crModifying \cup {<<c, 0>>}
    /\ UNCHANGED <<crNextTile, crWorker, crTile, crMutex, crErrors, crRecorded, exceptCr>>

\* errors_.clear() ends; the workers are launched
CrEndClear(c) ==
    /\ crPc[c] = "clearing"
    /\ crPc' = [crPc EXCEPT ![c] = "running"]
    /\ crErrors' \in ModifyOutcomes(<<c, 0>> \in crOverlapped, crErrors, << >>)
    /\ crModifying' = crModifying \ {<<c, 0>>}
    /\ crOverlapped' = crOverlapped \ {<<c, 0>>}
    /\ UNCHANGED <<crNextTile, crWorker, crTile, crMutex, crRecorded, exceptCr>>

\* worker: nextTile.fetch_add(1), the exit, renderTile and what it throws
CrClaim(c, w) ==
    /\ crPc[c] = "running"
    /\ crWorker[c][w] = "claim"
    /\ crNextTile' = [crNextTile EXCEPT ![c] = crNextTile[c] + 1]
    /\ IF crNextTile[c] >= CallTiles
       THEN /\ crWorker' = [crWorker EXCEPT ![c][w] = "exit"]
            /\ UNCHANGED crTile
       ELSE \E throws \in BOOLEAN :
               /\ crWorker' = [crWorker EXCEPT ![c][w] =
                                  IF throws THEN "caught" ELSE "claim"]
               /\ crTile' = [crTile EXCEPT ![c][w] =
                                  IF throws THEN crNextTile[c] ELSE crTile[c][w]]
    /\ UNCHANGED <<crPc, crMutex, crErrors, crModifying, crOverlapped, crRecorded, exceptCr>>

\* catch: std::lock_guard<std::mutex> lock(errorMutex)
CrLock(c, w) ==
    /\ crWorker[c][w] = "caught"
    /\ crMutex[c] = 0
    /\ crMutex' = [crMutex EXCEPT ![c] = w]
    /\ crWorker' = [crWorker EXCEPT ![c][w] = "locked"]
    /\ UNCHANGED <<crPc, crNextTile, crTile, crErrors, crModifying, crOverlapped, crRecorded, exceptCr>>

\* errors_.push_back({idx, ...}) begins
CrBeginPush(c, w) ==
    /\ crWorker[c][w] = "locked"
    /\ crWorker' = [crWorker EXCEPT ![c][w] = "pushing"]
    /\ crOverlapped' = BeginModify(crModifying, crOverlapped, <<c, w>>)
    /\ crModifying' = crModifying \cup {<<c, w>>}
    /\ UNCHANGED <<crPc, crNextTile, crTile, crMutex, crErrors, crRecorded, exceptCr>>

\* push_back ends, the lock_guard releases errorMutex
CrEndPush(c, w) ==
    /\ crWorker[c][w] = "pushing"
    /\ LET entry == [call |-> c, tileIndex |-> crTile[c][w]]
       IN  /\ crErrors' \in ModifyOutcomes(<<c, w>> \in crOverlapped, crErrors,
                                           Append(crErrors, entry))
           /\ crRecorded' = IF crErrors' = Append(crErrors, entry)
                            THEN crRecorded \cup {entry} ELSE crRecorded
    /\ crWorker' = [crWorker EXCEPT ![c][w] = "claim"]
    /\ crMutex' = [crMutex EXCEPT ![c] = 0]
    /\ crModifying' = crModifying \ {<<c, w>>}
    /\ crOverlapped' = crOverlapped \ {<<c, w>>}
    /\ UNCHANGED <<crPc, crNextTile, crTile, exceptCr>>

\* the joins and the return
CrReturn(c) ==
    /\ crPc[c] = "running"
    /\ \A w \in CrWorkers : crWorker[c][w] = "exit"
    /\ crPc' = [crPc EXCEPT ![c] = "returned"]
    /\ UNCHANGED <<crNextTile, crWorker, crTile, crMutex, crErrors, crModifying,
                   crOverlapped, crRecorded, exceptCr>>

CrNext ==
    \/ \E c \in Calls : CrBeginClear(c)
    \/ \E c \in Calls : CrEndClear(c)
    \/ \E c \in Calls, w \in CrWorkers : CrClaim(c, w)
    \/ \E c \in Calls, w \in CrWorkers : CrLock(c, w)
    \/ \E c \in Calls, w \in CrWorkers : CrBeginPush(c, w)
    \/ \E c \in Calls, w \in CrWorkers : CrEndPush(c, w)
    \/ \E c \in Calls : CrReturn(c)

TwoRendersInit == CrInit /\ EarlierIdle /\ CcIdle /\ MwIdle /\ SfIdle /\ SsIdle /\ BfIdle

TwoRendersSpec == TwoRendersInit /\ [][CrNext]_vars

\* ----------------------------------------------- generateTiles: the claims
RECURSIVE AreaSum(_, _)
AreaSum(ts, i) ==
    IF i > Len(ts) THEN 0 ELSE ts[i].width * ts[i].height + AreaSum(ts, i + 1)

TileHolds(t, px, py) ==
    /\ t.x <= px /\ px < t.x + t.width
    /\ t.y <= py /\ py < t.y + t.height

TilesPartition(ts, w, h) ==
    /\ \A i \in DOMAIN ts :
          /\ ts[i].x >= 0 /\ ts[i].y >= 0
          /\ ts[i].width > 0 /\ ts[i].height > 0
          /\ ts[i].x + ts[i].width <= w
          /\ ts[i].y + ts[i].height <= h
    /\ AreaSum(ts, 1) = w * h
    /\ \A px \in 0..(w - 1), py \in 0..(h - 1) :
          Cardinality({i \in DOMAIN ts : TileHolds(ts[i], px, py)}) = 1

\* C6 (as claimed): for all width, height, tileSize >= 1 generateTiles
\* returns tiles that lie inside the image, have positive size, have areas
\* summing to width x height, and hold every pixel exactly once.
C6_TilesPartitionImage ==
    gtPc = "returned"
        => /\ ~gtResult.thrown
           /\ TilesPartition(gtResult.tiles, gtArgs.w, gtArgs.h)

\* C6, where the arithmetic of generateTiles stays within int: the tiles
\* partition the image.
C6_PartitionWithoutOverflow ==
    (/\ gtPc = "returned"
     /\ ~TileCountOverflows(gtArgs.w, gtArgs.ts)
     /\ ~TileCountOverflows(gtArgs.h, gtArgs.ts))
        => /\ ~gtResult.thrown
           /\ TilesPartition(gtResult.tiles, gtArgs.w, gtArgs.h)

\* ------------------------------------------------------ render: the claims
ErrorCount(i) == Cardinality({k \in DOMAIN errors_ : errors_[k].tileIndex = i})

\* render by one thread that takes the tiles in index order.
RECURSIVE SequentialRender(_, _)
SequentialRender(i, pixels) ==
    IF i > Len(tiles) THEN pixels
    ELSE SequentialRender(i + 1,
             RenderTilePixels(tiles[i], config, 1,
                              tiles[i].width * tiles[i].height, pixels))

\* C1: within a render every tile index is claimed at most once, no two
\* workers hold the same index, and no pixel of the output is written more
\* than once (so never by two workers).
C1_TilesAndPixelsExclusive ==
    /\ \A i \in DOMAIN claims : claims[i] <= 1
    /\ \A p \in DOMAIN writes : writes[p] <= 1
    /\ \A v, w \in Workers :
          (v # w /\ wpc[v] \in {"render", "catch"} /\ wpc[w] \in {"render", "catch"})
              => widx[v] # widx[w]

C1_Witness ==
    /\ wpc[1] = "count"
    /\ wpc[2] = "render"
    /\ tiles[widx[1] + 1].width * tiles[widx[1] + 1].height >= 2
    /\ writes[tiles[widx[1] + 1].y * config.width + tiles[widx[1] + 1].x] = 1

\* C2 (as claimed): when render has returned, with a callback and at least
\* one tile, the last callback invocation was passed tilesCompleted =
\* tilesTotal.
C2_LastCallbackReportsTotal ==
    (mainPc = "returned" /\ hasCallback /\ totalTiles >= 1)
        => (Len(cbLog) >= 1 /\ cbLog[Len(cbLog)].done = cbLog[Len(cbLog)].total)

\* C3: an exception of renderTile never leaves the worker; the tile that
\* threw has exactly one entry in errors_ once its worker has handled it (and
\* no other tile has one); when render returns every tile was rendered once.
C3_TileErrorIsolated ==
    /\ mainPc # "aborted"
    /\ \A w \in Workers : wpc[w] # "uncaught"
    /\ \A i \in DOMAIN renderCalls :
          ErrorCount(i) =
              (IF i \in threwAt /\ ~(\E w \in Workers : wpc[w] = "catch" /\ widx[w] = i)
               THEN 1 ELSE 0)
    /\ mainPc = "returned" => \A i \in DOMAIN renderCalls : renderCalls[i] = 1

C3_Witness ==
    /\ mainPc = "returned"
    /\ totalTiles >= 2
    /\ threwAt = {0}
    /\ errors_ = <<[tileIndex |-> 0, message |-> "Unknown error"]>>
    /\ numThreads = 1

\* C4: render terminates: eventually it has returned, every worker started
\* was joined, every tile was passed to renderTile, and the image has the
\* configured size.
C4_RenderTerminates ==
    <>(/\ mainPc = "returned"
       /\ joined = numThreads
       /\ \A w \in Workers : wpc[w] \in {"idle", "joined"}
       /\ \A i \in DOMAIN renderCalls : renderCalls[i] >= 1
       /\ DOMAIN renderCalls = 0..(totalTiles - 1)
       /\ output.width = config.width
       /\ output.height = config.height
       /\ DOMAIN output.pixels = 0..(config.width * config.height - 1))

C4_Witness ==
    /\ mainPc = "returned"
    /\ joined = 2
    /\ totalTiles = 2
    /\ threwAt # {}
    /\ \A i \in DOMAIN renderCalls : renderCalls[i] = 1

\* C5: when no tile threw, the image render returns is the image one thread
\* taking the tiles in order produces, whatever the number of workers and
\* their interleaving.
C5_ImageIndependentOfThreads ==
    (mainPc = "returned" /\ threwAt = {})
        => /\ output.width = config.width
           /\ output.height = config.height
           /\ output.pixels = SequentialRender(1, NewPixels(config.width, config.height))

C5_Witness ==
    /\ mainPc = "returned"
    /\ threwAt = {}
    /\ numThreads >= 2
    /\ totalTiles >= 2
    /\ config.samplesPerPixel = 2
    /\ \E p, q \in DOMAIN output.pixels : output.pixels[p] # output.pixels[q]

\* C7: with a callback, when render returns the callback was invoked exactly
\* once for every tile, threw or not, each time with total = tile count; it
\* is never invoked twice for a tile.
C7_CallbackOncePerTile ==
    /\ \A i \in DOMAIN cbCalls : cbCalls[i] <= 1
    /\ \A k \in DOMAIN cbLog : cbLog[k].total = totalTiles
    /\ (mainPc = "returned" /\ hasCallback)
          => /\ Len(cbLog) = totalTiles
             /\ \A i \in DOMAIN cbCalls : cbCalls[i] = 1

C7_Witness ==
    /\ mainPc = "returned"
    /\ hasCallback
    /\ totalTiles >= 2
    /\ threwAt # {}
    /\ Len(cbLog) = totalTiles

\* ---------------------------------------------------- traceRay: the claims
\* C8: for maxBounces >= 0 a top-level traceRay call at depth 0 causes at
\* most maxBounces + 1 invocations of traceRay, each invocation calls at
\* depth + 1 of its caller, and no recursive invocation has depth greater
\* than maxBounces.
C8_InvocationsBounded ==
    (trArgs.depth = 0 /\ trArgs.maxBounces >= 0)
        => /\ trCalls <= trArgs.maxBounces + 1
           /\ Len(trStack) <= trCalls
           /\ \A i \in DOMAIN trStack :
                 /\ trStack[i].depth = i - 1
                 /\ trStack[i].depth <= trArgs.maxBounces

C8_Witness ==
    /\ trPc = "done"
    /\ trArgs.depth = 0
    /\ trArgs.maxBounces = MaxBounces
    /\ trCalls = MaxBounces + 1
    /\ trShades = MaxBounces + 1

\* C9: traceRay called with depth > maxBounces returns the background colour:
\* scene.backgroundColor without a config (and with a config without
\* gradient), the gradient's centre colour with alpha 1 otherwise; it does
\* not call intersectScene, shade or itself.
C9_DepthExceededReturnsBackground ==
    (trPc = "done" /\ trArgs.depth > trArgs.maxBounces)
        => /\ trRet = (IF trArgs.config.present /\ trArgs.config.gradientBg
                       THEN [c |-> trArgs.config.bgCenter.c, a |-> 100]
                       ELSE trArgs.scene.backgroundColor)
           /\ trIntersects = 0
           /\ trShades = 0
           /\ trCalls = 1

C9_Witness ==
    /\ trPc = "done"
    /\ trArgs.depth = trArgs.maxBounces + 1
    /\ ~trArgs.config.present
    /\ trArgs.scene.backgroundColor.c > 100
    /\ trRet = trArgs.scene.backgroundColor

\* -------------------------------------------------------- Mesh: the claim
\* C10: after any sequence of buildBox, copy and move constructions, copy and
\* move assignments and destructions, triangle k of every live mesh points to
\* an element of that mesh's own ownedTextures, at the face index buildBox
\* gave triangle k, and that element holds the texture of that face.
C10_TrianglesPointIntoOwnTextures ==
    \A m \in MeshIds :
        meshLive[m] =>
            \A k \in DOMAIN meshes[m].triangles :
                LET t == meshes[m].triangles[k].texture IN
                /\ t.mesh = m
                /\ t.face = (k - 1) \div 2
                /\ meshes[m].ownedTextures[t.face].face = t.face
                /\ meshes[m].ownedTextures[t.face].hasPixels

C10_Witness ==
    /\ meshOp.op = "moveAssign"
    /\ meshOp.src # meshOp.dst
    /\ Len(meshes[meshOp.dst].triangles) = 12
    /\ meshLive[meshOp.src]
    /\ \E m \in MeshIds \ {meshOp.src, meshOp.dst} :
          /\ meshLive[m]
          /\ Len(meshes[m].triangles) = 12
          /\ meshes[m].ownedTextures[0].part # meshes[meshOp.dst].ownedTextures[0].part

\* ----------------------------------- intersectMesh, intersectScene: claims
\* The fields of a HitResult the caller sees.
HitFields(h) ==
    [hit |-> h.hit, t |-> h.t, normal |-> h.normal,
     textureColor |-> h.textureColor, isOuterLayer |-> h.isOuterLayer]

IndexPermutations(n) ==
    {f \in [1..n -> 1..n] : \A a, b \in 1..n : f[a] = f[b] => a = b}

Permuted(meshList, f) == [k \in DOMAIN meshList |-> meshList[f[k]]]

\* C11 (as claimed): for every ray and every permutation of scene.meshes,
\* intersectScene returns the same hit flag, t, normal, texture colour and
\* isOuterLayer.
C11_SceneOrderIrrelevant ==
    ixPc = "returned"
        => \A f \in IndexPermutations(Len(ixScene)) :
              HitFields(IntersectScene(ixRay, Permuted(ixScene, f)))
                  = HitFields(ixResult)

HitIndices == {k \in DOMAIN ixMeshHits : ixMeshHits[k].hit}

\* C12 (as claimed): intersectScene returns a hit if and only if
\* intersectMesh reports a hit for some mesh of the scene, and then the
\* returned t is the least t of the meshes that hit.
C12_SceneHitIsNearestMeshHit ==
    ixPc = "returned"
        => /\ ixResult.hit <=> HitIndices # {}
           /\ ixResult.hit =>
                 /\ \E k \in HitIndices : ixResult.t = ixMeshHits[k].t
                 /\ \A k \in HitIndices : ixResult.t <= ixMeshHits[k].t

\* The ray's origin lies outside the closed box / strictly inside the box.
OriginOutside(ray, mesh) ==
    \E i \in Axes : ray.origin[i] < mesh.boxMin[i] \/ ray.origin[i] > mesh.boxMax[i]

OriginInside(ray, mesh) ==
    \A i \in Axes : mesh.boxMin[i] < ray.origin[i] /\ ray.origin[i] < mesh.boxMax[i]

\* The points of the ray, by parameter, that lie in the closed box.
InBoxAt(ray, mesh, t) ==
    \A i \in Axes :
        /\ mesh.boxMin[i] <= ray.origin[i] + t * ray.direction[i]
        /\ ray.origin[i] + t * ray.direction[i] <= mesh.boxMax[i]

SetMin(S) == CHOOSE x \in S : \A y \in S : x <= y

SetMax(S) == CHOOSE x \in S : \A y \in S : x >= y

\* The face the slab loop enters the box through, and its sample's alpha.
EntryFace(ray, mesh) ==
    LET slab == SlabLoop(0, ray, mesh,
                    [tmin |-> -FloatMax, tmax |-> FloatMax, hitAxis |-> 0,
                     hitNegSide |-> FALSE, miss |-> FALSE])
    IN  DetermineFace(slab.hitAxis, slab.hitNegSide).faceIndex

EntryAlpha(ray, mesh) == mesh.alpha[EntryFace(ray, mesh)]

\* shell is an outer layer box built with an offset > 0 around inner's centre.
EnclosingShell(inner, shell) ==
    /\ ~inner.empty /\ ~shell.empty
    /\ ~inner.isOuterLayer /\ shell.isOuterLayer
    /\ \E offset \in 1..(ShellOffset + 1) : \A i \in Axes :
          /\ shell.boxMin[i] = inner.boxMin[i] - offset
          /\ shell.boxMax[i] = inner.boxMax[i] + offset

\* The case of C13: mesh a of the scene is an opaque inner box, mesh b its
\* shell; the ray starts outside the shell, hits the inner box and finds
\* alpha 0 where it enters the shell.
TransparentShellCase(a, b) ==
    /\ Len(ixScene) = 2 /\ {a, b} = {1, 2}
    /\ EnclosingShell(ixScene[a], ixScene[b])
    /\ ixScene[a].alpha = AllAlpha(1)
    /\ OriginOutside(ixRay, ixScene[b])
    /\ ixMeshHits[a].hit
    /\ EntryAlpha(ixRay, ixScene[b]) = 0

\* C13: an opaque inner box in a shell whose entry face sample is transparent:
\* intersectScene returns the inner box's hit, isOuterLayer = FALSE, whatever
\* the shell's other faces and the order of the two meshes.
C13_TransparentShellShowsInner ==
    ixPc = "returned" =>
        \A a, b \in 1..2 :
            TransparentShellCase(a, b)
                => /\ HitFields(ixResult) = HitFields(ixMeshHits[a])
                   /\ ixResult.hit
                   /\ ~ixResult.isOuterLayer
                   /\ ixResult.textureColor.tint = ixScene[a].tint

\* the shell comes first in the list and its far face is opaque: the shell
\* itself reports a hit, farther away than the inner box's.
C13_Witness ==
    /\ ixPc = "returned"
    /\ TransparentShellCase(2, 1)
    /\ ixMeshHits[1].hit
    /\ ixMeshHits[1].isOuterLayer
    /\ ixMeshHits[1].t > ixResult.t
    /\ ~ixResult.isOuterLayer

\* The parameters t >= 0 at which the ray is in the closed box (origins and
\* boxes lie within MaxOrigin + ShellOffset + 2 of the centre).
BoxParams(ray, mesh) ==
    {t \in 0..(2 * (MaxOrigin + ShellOffset + 2)) : InBoxAt(ray, mesh, t)}

EntryParam(ray, mesh) == SetMin(BoxParams(ray, mesh))

ExitParam(ray, mesh) == SetMax(BoxParams(ray, mesh))

ExitAlpha(ray, mesh) ==
    LET exit == ExitFace(ray, mesh)
    IN  mesh.alpha[DetermineFace(exit.exitAxis, exit.exitNegSide).faceIndex]

\* The case of C14: the ray starts outside the box, meets it, and the sample
\* of the entry face has alpha 0.
TransparentEntryCase(k) ==
    /\ ~ixScene[k].empty
    /\ OriginOutside(ixRay, ixScene[k])
    /\ BoxParams(ixRay, ixScene[k]) # {}
    /\ EntryAlpha(ixRay, ixScene[k]) = 0

\* What C14 says of an outer layer in that case: one sample of the exit face,
\* a hit at the exit parameter exactly if that sample has alpha > 0.
ExitFaceDecides(k) ==
    /\ ixMeshHits[k].exitSamples = 1
    /\ ixMeshHits[k].hit <=> ExitAlpha(ixRay, ixScene[k]) > 0
    /\ ixMeshHits[k].hit =>
          /\ ixMeshHits[k].t = ExitParam(ixRay, ixScene[k])
          /\ ixMeshHits[k].isOuterLayer

\* C14 (as claimed): for an outer layer mesh hit from outside with a
\* transparent entry sample, intersectMesh samples the exit face once and
\* hits at the exit parameter iff that sample has alpha > 0; a mesh that is
\* not an outer layer misses.
C14_ExitFaceTriedOnce ==
    ixPc = "returned" =>
        \A k \in DOMAIN ixScene :
            TransparentEntryCase(k)
                => IF ixScene[k].isOuterLayer THEN ExitFaceDecides(k)
                   ELSE ~ixMeshHits[k].hit

\* C14 (amended): the same where the exit parameter is greater than the entry
\* parameter; a ray that only touches the box (exit = entry) is a miss of an
\* outer layer without a sample of the exit face.
C14_ExitFaceTriedOncePastEntry ==
    ixPc = "returned" =>
        \A k \in DOMAIN ixScene :
            TransparentEntryCase(k)
                => IF ~ixScene[k].isOuterLayer THEN ~ixMeshHits[k].hit
                   ELSE IF ExitParam(ixRay, ixScene[k]) > EntryParam(ixRay, ixScene[k])
                   THEN ExitFaceDecides(k)
                   ELSE ~ixMeshHits[k].hit /\ ixMeshHits[k].exitSamples = 0

C14_Witness ==
    /\ ixPc = "returned"
    /\ Len(ixScene) = 1
    /\ TransparentEntryCase(1)
    /\ ixScene[1].isOuterLayer
    /\ ExitAlpha(ixRay, ixScene[1]) > 0
    /\ ixResult.hit
    /\ ixResult.isOuterLayer
    /\ ixResult.exitSamples = 1
    /\ ixResult.t = ExitParam(ixRay, ixScene[1])
    /\ ixResult.t > EntryParam(ixRay, ixScene[1])

\* A box whose six face textures have alpha 0 at every pixel.
FullyTransparentBox(mesh) == ~mesh.empty /\ mesh.alpha = AllAlpha(0)

LeavesAt(ray, mesh) ==
    IF \A i \in Axes : ray.direction[i] = 0 THEN FloatMax
    ELSE ExitParam(ray, mesh)

\* The outward normals of the faces the ray leaves the box through at t.
LeavingNormals(ray, mesh, t) ==
    {n \in [Axes -> {-1, 0, 1}] :
        \E i \in Axes :
            /\ ray.direction[i] # 0
            /\ n = [j \in Axes |-> IF j = i THEN ray.direction[i] ELSE 0]
            /\ ray.origin[i] + t * ray.direction[i]
                  = IF ray.direction[i] > 0 THEN mesh.boxMax[i] ELSE mesh.boxMin[i]}

\* The box lies on the line of the ray, at negative parameters only.
BoxBehind(ray, mesh) ==
    /\ BoxParams(ray, mesh) = {}
    /\ \E t \in 1..(2 * (MaxOrigin + ShellOffset + 2)) : InBoxAt(ray, mesh, -t)

BoxBeforeLight(k) ==
    \E t \in 0..(shTrace[1].distToLight - 1) :
        InBoxAt(shTrace[1].shadowRay, shArgs.scene[k], t)

OpaqueFromOutside(k) ==
    /\ shArgs.scene[k].alpha = AllAlpha(1)
    /\ OriginOutside(shTrace[1].shadowRay, shArgs.scene[k])

\* C17: isInShadow is true exactly if the shadow ray from the offset point
\* meets a visible surface nearer than the light: with opaque boxes, exactly
\* if one of them lies on the segment from the offset point to the light; a
\* scene without a box there, or with boxes beyond the light only, gives false.
C17_ShadowIffBlockerBeforeLight ==
    (shPc = "returned" /\ shTrace[1].distToLight > 0) =>
        /\ shResult => \E k \in DOMAIN shArgs.scene : BoxBeforeLight(k)
        /\ (\A k \in DOMAIN shArgs.scene : OpaqueFromOutside(k))
              => (shResult <=> \E k \in DOMAIN shArgs.scene : BoxBeforeLight(k))

C17_Witness ==
    /\ shPc = "returned"
    /\ shTrace[1].distToLight > 0
    /\ shArgs.scene # << >>
    /\ \A k \in DOMAIN shArgs.scene : OpaqueFromOutside(k)
    /\ shTrace[1].hit.hit
    /\ shTrace[1].hit.t >= shTrace[1].distToLight
    /\ ~shResult

\* C18 (as claimed): with the light at the shaded point isInShadow is false,
\* whatever the scene and the normal.
C18_LightAtPointNotInShadow ==
    (shPc = "returned" /\ shArgs.lightPos = shArgs.point) => ~shResult

\* The meshes of the scene built for a part at an offset.
MeshesOf(name, offsets) ==
    {k \in DOMAIN bsMeshes : bsMeshes[k].part = name /\ bsMeshes[k].offset \in offsets}

SomePixelVisible(tex) == \E f \in Faces : \E i \in DOMAIN tex[f] : tex[f][i] # 0

\* C19: buildScene adds the outer mesh of a part exactly if some pixel of one
\* of its six outer textures has alpha # 0, and the inner mesh of every part,
\* posed or not.
C19_OuterMeshIffVisiblePixel ==
    bsPc = "returned" =>
        \A name \in PartNames :
            /\ Cardinality(MeshesOf(name, {0})) = 1
            /\ \A k \in MeshesOf(name, {0}) : bsMeshes[k].tex = bsSkin[name].inner
            /\ MeshesOf(name, {5}) # {} <=> SomePixelVisible(bsSkin[name].outer)
            /\ Cardinality(MeshesOf(name, {5})) <= 1
            /\ \A k \in MeshesOf(name, {5}) : bsMeshes[k].tex = bsSkin[name].outer

C19_Witness ==
    /\ bsPc = "returned"
    /\ HasPose(bsPose["head"])
    /\ ~HasPose(bsPose["rightArm"])
    /\ \E f \in Faces : bsSkin["head"].outer[f] = <<0, 1>>
    /\ MeshesOf("head", {5}) # {}
    /\ \E f \in Faces : bsSkin["rightArm"].outer[f] = << >>
    /\ MeshesOf("rightArm", {5}) = {}
    /\ Len(bsMeshes) = 3

\* C20: when render has returned, lastErrors() holds exactly one entry for
\* each tile that threw in this call and nothing else, so nothing of an
\* earlier call; it is empty after a render without a throw or without tiles.
C20_ErrorsOfThisRenderOnly ==
    mainPc = "returned" =>
        /\ {errors_[k].tileIndex : k \in DOMAIN errors_} = threwAt
        /\ Len(errors_) = Cardinality(threwAt)
        /\ (threwAt = {} \/ totalTiles = 0) => errors_ = << >>

C20_Witness ==
    /\ mainPc = "returned"
    /\ totalTiles >= 2
    /\ threwAt = {1}
    /\ Len(errors_) = 1
    /\ errors_[1].tileIndex = 1

\* The thread count C21 names: the configured one if positive, otherwise the
\* hardware concurrency, or 1 if that is not positive.
ClaimedThreads ==
    IF config.threadCount > 0 THEN config.threadCount
    ELSE IF hardware > 0 THEN hardware ELSE 1

\* The workers that were started.
StartedWorkers == {w \in Workers : wpc[w] # "idle"}

\* C21: render starts exactly min(T, tileCount) worker threads, T the
\* configured thread count, or the hardware concurrency, or 1; with zero
\* tiles it starts none.
C21_StartsMinThreadsTiles ==
    /\ mainPc \in {"launch", "join", "returned"} =>
          /\ numThreads = (IF ClaimedThreads < totalTiles THEN ClaimedThreads
                           ELSE totalTiles)
          /\ launched <= numThreads
          /\ Cardinality(StartedWorkers) = launched
    /\ mainPc \in {"join", "returned"} => launched = numThreads
    /\ (mainPc = "returned" /\ totalTiles = 0) => StartedWorkers = {}

C21_Witness ==
    /\ mainPc = "returned"
    /\ config.threadCount <= 0
    /\ hardware = 0
    /\ totalTiles >= 2
    /\ Cardinality(StartedWorkers) = 1

\* C24: with two or more worker threads the tilesCompleted values of the
\* progress callback increase strictly in invocation order: the k-th
\* invocation reports k.
C24_ProgressStrictlyIncreasing ==
    numThreads >= 2 =>
        /\ \A i, j \in DOMAIN cbLog : i < j => cbLog[i].done < cbLog[j].done
        /\ \A i \in DOMAIN cbLog : cbLog[i].done = i

\* -89 <= pitch <= 89, which no NaN satisfies.
PitchInRange(pitch) ==
    /\ ~FLess(pitch, Fin(-PITCH_LIMIT))
    /\ ~FLess(Fin(PITCH_LIMIT), pitch)
    /\ pitch.k # "nan"

\* C23 (as claimed): after every handleMouseMove, whatever the state before
\* it, the deltas and the sensitivity, the pitch is within [-89, 89].
C23_PitchClampedAfterMouseMove ==
    ccLast = "handleMouseMove" => PitchInRange(ccPitch)

\* C22: while a render started by onRenderExport runs, the scene and the
\* config that render reads are the ones captured at the start, whatever the
\* GUI handlers do to the window's scene_ and bounce count meanwhile.
C22_RenderInputsUnchanged ==
    \A k \in LiveThreads(mwThreads) :
        /\ mwThreads[k].sceneCopy = mwThreads[k].sceneAtStart
        /\ mwThreads[k].config = mwThreads[k].configAtStart
        /\ \A r \in mwThreads[k].reads :
              /\ r.scene = mwThreads[k].sceneAtStart
              /\ r.config = mwThreads[k].configAtStart

C22_Witness ==
    \E k \in DOMAIN mwThreads :
        /\ mwThreads[k].state = "running"
        /\ mwThreads[k].reads # {}
        /\ mwScene # mwThreads[k].sceneAtStart

\* C27 (as claimed): from onRenderExport until onRenderFinished every control
\* that setControlsEnabled toggles, the render and the fetch button among
\* them, stays disabled.
C27_ControlsDisabledWhileRendering ==
    mwRendering => mwControls = AllControls(FALSE)

\* C28: at most one render thread exists at any time, and none once the
\* destructor has run.
C28_OneRenderThread ==
    /\ Cardinality(LiveThreads(mwThreads)) <= 1
    /\ mwPc = "destroyed" => LiveThreads(mwThreads) = {}

C28_Witness ==
    /\ Len(mwThreads) = 2
    /\ mwThreads[1].state = "exited"
    /\ mwThreads[2].state = "running"
    /\ mwPc = "destroyed" \/ mwHandle = 2

\* C29 (as claimed): every finished signal names the file of the username
\* that was passed to the fetch call whose reply chain produced the data, also
\* when fetch is called again before that chain has completed.
C29_FinishedNamesOwnUser ==
    \A i \in DOMAIN sfSignals :
        sfSignals[i].signal = "finished"
            => sfSignals[i].file = SkinFileOf(sfSignals[i].dataOf)

\* C30: when config.softShadows is true, config.shadowSamples > 1 and the
\* light's radius is positive, the visibility factor of traceRay's shading
\* is the lit fraction computeSoftShadow computes, not the hard shadow test.
C30_SoftShadowFractionUsed ==
    (/\ ssPc = "shaded"
     /\ ssArgs.softShadows
     /\ ssArgs.shadowSamples > 1
     /\ ssArgs.radius > 0)
    => ssVisibility = ComputeSoftShadow(ssArgs.shadowSamples, ssArgs.radius,
                                        ssArgs.occluded, ssArgs.picks)

\* The texture a hit was sampled from, by its name
SampledTexture(hit) == TextureNames[hit.textureColor.a - 1]

\* The textures attached to the triangles whose stored normal is n
TexturesOnSide(triangles, n) ==
    {TextureNames[triangles[k].texture] :
        k \in {j \in DOMAIN triangles : triangles[j].normal = n}}

\* C26: for a box of a scene built by buildScene, the texture intersectMesh
\* samples for a hit is the texture of the two triangles whose stored normal
\* is the reported hit normal; a hit on the +Z side, which faces the camera,
\* is coloured from the front texture.
C26_HitSamplesTextureOfItsSide ==
    (bfPc = "hit" /\ bfHit.hit)
    => /\ TexturesOnSide(bfTriangles, bfHit.normal) = {SampledTexture(bfHit)}
       /\ bfHit.normal = Vec(0, 0, 1) => SampledTexture(bfHit) = "front"

\* C25: two calls of render running at the same time do not interfere
\* through the error list: no two threads modify it at the same time, and
\* an entry one call recorded is still in the list while that call runs.
C25_ErrorListNotShared ==
    /\ Cardinality(crModifying) <= 1
    /\ \A e \in crRecorded :
           crPc[e.call] = "running"
           => \E k \in DOMAIN crErrors : crErrors[k] = e

====
